---- MODULE Spec2Model ----
\* A state-machine model of the LCC SDK client (pkg/client): the feature cache,
\* the admission primitives, the package-level concurrency ledger, the client
\* mutex and Register/Close.  Threads are goroutines of the embedding
\* application; every step is one atomic section of the Go code (a section under
\* a lock, or the part of a call between two blocking points).
EXTENDS Integers, Sequences, FiniteSets, TLC

\* ---------------------------------------------------------------- bounds
MaxTime == 2          \* the clock runs from 0 to MaxTime
MaxCalls == 5         \* top-level calls started in one behaviour
MaxTTL == 1           \* configured cache TTLs are 0..MaxTTL
MaxConc == 2          \* license max_concurrency values are 0..MaxConc
MaxReleaseCalls == 2  \* invocations of one release capability
MaxAmount == 2        \* Consume amounts are 1..MaxAmount
MaxRateTime == 3      \* the clock of the helper/rate scenario runs from 0 to MaxRateTime
MaxFeatures == 2      \* a validated manifest has 0..MaxFeatures features

Clients == {"c1", "c2"}
Threads == {"t1", "t2"}
KeyPairs == {"kpA", "kpB"}
ProductKey == "__product__"
FeatureKey == "feat"
CheckKeys == {ProductKey, FeatureKey}
NoThread == "none"
None == [none |-> TRUE]

\* auth.KeyPair.GetFingerprint: the hex SHA-256 of the public key, a function of
\* the key pair alone (two clients built from one key pair get one fingerprint).
GetFingerprint(kp) == IF kp = "kpA" THEN "fpA" ELSE "fpB"

\* The ledger key of AcquireSlot / AcquireSlotDeprecated.
LedgerKey(id, featureID) == <<id, featureID>>

VARIABLES
    now,         \* time.Now(), in clock ticks
    clients,     \* the clients constructed with NewClientWithKeyPair
    signerKey,   \* Client.signer.keyPair: the key pair the client was built from
    keyPair,     \* Client.keyPair: that key pair, or "nil" after Close
    destroyed,   \* the key pairs wiped by KeyPair.Destroy
    instanceID,  \* Client.instanceID
    ttl,         \* featureCache.ttl (cfg.CacheTTL)
    baseURL,     \* Client.baseURL (cfg.LCCURL)
    cache,       \* featureCache.data: per client, check-key -> cacheEntry
    mu,          \* Client.mu: the thread holding the write lock, or NoThread
    ledger,      \* concurrencyState: ledger key -> count (absent keys read as 0)
    license,     \* what the authority currently answers to a feature check
    pc,          \* per thread: its position in the call it runs
    op,          \* per thread: the call it runs (name, client, arguments)
    loc,         \* per thread: the locals of that call
    ret,         \* per thread: what its last call returned
    slots,       \* the release capabilities handed out by admitted acquisitions
    helpers,     \* Client.helpers: None or the registered bundle
    requests,    \* tpsTracker.requests: per client, the recorded timestamps
    events,      \* history: per client, the time of every RecordRequest so far
    reported,    \* the "count" of each usage report sent to the authority so far
    heartbeat,   \* per client: heartbeatRunning, the context heartbeatCancel cancels, loop goroutines
    fatal,       \* the process has died (concurrent map access, or a panic nobody recovers)
    calls        \* top-level calls started so far

vars == <<now, clients, signerKey, keyPair, destroyed, instanceID, ttl, baseURL, cache, mu, ledger, license, pc, op, loc,
          ret, slots, helpers, requests, events, reported, heartbeat, fatal, calls>>

\* groups used in UNCHANGED clauses
config == <<clients, signerKey, keyPair, destroyed, instanceID, ttl, baseURL>>
threadv == <<pc, op, loc, ret>>

\* ---------------------------------------------------------------- data
\* FeatureStatus as built by queryFeature from the response; quota is the
\* remaining quota of quota_info, or -1 when the response has no quota block.
Status(enabled, reason, quota, maxCap, maxTPS, maxConc) ==
    [enabled |-> enabled, reason |-> reason, quota |-> quota,
     maxCapacity |-> maxCap, maxTPS |-> maxTPS, maxConcurrency |-> maxConc]

\* The locals of a call: the check-key and the (status, err) of its feature
\* check, the decoded cache_ttl of the query response, a count read from the
\* ledger or a rate, the helper bundle it read from c.helpers, how many
\* authority queries and usage reports the call has sent so far, and the
\* context startHeartbeatLoop made for its loop (0: none).
NoLocals == [key |-> "", status |-> None, err |-> "", cacheTTL |-> 0, cur |-> 0,
             helpers |-> None, queries |-> 0, reports |-> 0, ctx |-> 0]
NoOp == [name |-> "idle", client |-> "c1", arg |-> 0]
NoRet == [name |-> "none"]

Client(t) == op[t].client

Max(a, b) == IF a > b THEN a ELSE b

\* ---------------------------------------------------------------- cache
\* featureCache.get: the cached status, or None when the key has no entry or
\* time.Now().After(entry.expiresAt).
featureCache_get(data, featureID, t) ==
    IF featureID \notin DOMAIN data THEN None
    ELSE IF t > data[featureID].expiresAt THEN None
    ELSE data[featureID].status

\* featureCache.set: replaces the entry, expiresAt = time.Now().Add(fc.ttl).
featureCache_set(data, featureID, status, t, d) ==
    [k \in DOMAIN data \cup {featureID} |->
        IF k = featureID THEN [status |-> status, expiresAt |-> t + d]
        ELSE data[k]]

\* featureCache.clear: a fresh empty map.
featureCache_clear == [k \in {} |-> None]

\* ------------------------------------------------------- the authority
\* The authority is a black box: it answers a feature check with its current
\* license state, or the request fails (transport error, non-200 status).
Quotas == {-1, 1, 3}

\* The cache_ttl field of a feature-check response, in clock ticks: the
\* lifetime the server suggests, or 0 when the response carries none (the
\* field decodes to Go's zero value).
ServerTTLs == {0, 2}

\* The feature is revoked or granted again on the authority's side (quota used
\* up or reset, license replaced); the configured limits stay as they are.
LicenseChange ==
    /\ ~fatal
    /\ license' = [license EXCEPT !.enabled = ~@,
                                  !.reason = IF @ = "" THEN "quota_exceeded" ELSE ""]
    /\ UNCHANGED <<now, config, cache, mu, ledger, threadv, slots, helpers,
                   requests, events, reported, heartbeat, fatal, calls>>

\* The clock advances.
Tick ==
    /\ ~fatal
    /\ now < MaxTime
    /\ now' = now + 1
    /\ UNCHANGED <<config, cache, mu, ledger, license, threadv, slots, helpers,
                   requests, events, reported, heartbeat, fatal, calls>>

\* ------------------------------------------------------- CheckFeature
\* A thread may start a call when it is idle and the call budget allows.
CanCall(t, c) ==
    /\ ~fatal
    /\ pc[t] = "idle"
    /\ c \in clients
    /\ calls < MaxCalls

\* RequestSigner.SignRequest fails once the key pair has been destroyed
\* (KeyPair.Sign: "private key is nil"); no request is sent then.
CanSign(c) == signerKey[c] \notin destroyed

\* The key pair thread u is inside KeyPair.Destroy on, "nil" when it is in no
\* such call: Destroy called by the application itself, or by Close on
\* c.keyPair when that is not nil.
WipedBy(u) ==
    IF pc[u] = "kp_destroy" THEN op[u].arg
    ELSE IF pc[u] = "close_destroy" THEN keyPair[Client(u)]
    ELSE "nil"

\* The key pairs being wiped now.  KeyPair.Destroy takes no lock (Close holds
\* the mutex of its own client only): it zeroes the numbers of the private
\* key and then sets both key fields to nil, while KeyPair.Sign and
\* KeyPair.GetPublicKeyPEM, which take no lock either, test the field for nil
\* and read it a second time to use it.
Wiping == {WipedBy(u) : u \in Threads} \ {"nil"}

\* Thread t is inside KeyPair.Destroy on a key pair another thread is inside
\* Destroy on: the field it tested may be nil by the time it dereferences it.
DestroyRace(t) ==
    /\ WipedBy(t) # "nil"
    /\ \E u \in Threads \ {t} : WipedBy(u) = WipedBy(t)

\* The nil dereference one of these races can end in.
SignPanic == "panic: nil pointer dereference"

\* What a call that panicked and was recovered by its caller leaves behind:
\* no return value of the call, only the panic.
Recovered(name, c) == [name |-> "panic", call |-> name, client |-> c, err |-> SignPanic]

\* A call returns r to the application: the thread is idle again.
Return(t, r) ==
    /\ ret' = [ret EXCEPT ![t] = r]
    /\ pc' = [pc EXCEPT ![t] = "idle"]
    /\ op' = [op EXCEPT ![t] = NoOp]
    /\ loc' = [loc EXCEPT ![t] = NoLocals]

\* A nil dereference in thread t's call of name on client c, which holds no
\* lock: the panic ends the process, or the application recovers it and the
\* call is over.
Panic(t, name, c) ==
    \/ /\ fatal' = TRUE
       /\ UNCHANGED threadv
    \/ /\ Return(t, Recovered(name, c))
       /\ UNCHANGED fatal

\* The base URLs a client is built with (NewClientWithKeyPair takes cfg.LCCURL
\* as it is): one that parses, and one that url.Parse rejects, for which
\* http.NewRequest returns an error.
GoodURL == "http://localhost:7086"
BadURL == "http://[::1"
URLs == {GoodURL, BadURL}

\* The start of every request to the authority: http.NewRequest, then
\* RequestSigner.SignRequest.  The outcomes it can have: the error the caller
\* wraps, "" when the request is ready to be sent, or SignPanic.  While the
\* key pair is being wiped the signature races with KeyPair.Destroy: the
\* request is signed (with the key, or with what is left of it, which the
\* authority then refuses), Sign or GetPublicKeyPEM finds the field nil, or
\* the second read of the field is nil and rsa.SignPKCS1v15 dereferences it.
RequestErrors(c) ==
    IF baseURL[c] = BadURL THEN {"failed to create request"}
    ELSE IF ~CanSign(c) THEN {"failed to sign request"}
    ELSE IF signerKey[c] \in Wiping THEN {"", "failed to sign request", SignPanic}
    ELSE {""}

\* Client.CheckFeature, the cache lookup (c.cache.get, under fc.mu).  On a hit
\* the status is returned to the caller (position "cf_done"); on a miss the
\* thread goes on to queryFeature (position "cf_query"), fc.mu released.
Lookup(t, c, featureID) ==
    LET hit == featureCache_get(cache[c], featureID, now) IN
    IF hit # None
    THEN /\ pc' = [pc EXCEPT ![t] = "cf_done"]
         /\ loc' = [loc EXCEPT ![t] = [@ EXCEPT !.key = featureID, !.status = hit,
                                                !.err = ""]]
    ELSE /\ pc' = [pc EXCEPT ![t] = "cf_query"]
         /\ loc' = [loc EXCEPT ![t] = [@ EXCEPT !.key = featureID, !.status = None]]

\* queryFeature, up to httpClient.Do: the request is built and signed with the
\* key pair as it is now (an error ends the feature check, nothing sent; a
\* panic ends the call), then sent, and the thread waits for the answer
\* (position "cf_wait").
queryFeature(t) ==
    /\ ~fatal
    /\ pc[t] = "cf_query"
    /\ \E e \in RequestErrors(Client(t)) :
          IF e = SignPanic
          THEN Panic(t, op[t].name, Client(t))
          ELSE IF e # ""
          THEN /\ pc' = [pc EXCEPT ![t] = "cf_done"]
               /\ loc' = [loc EXCEPT ![t] = [@ EXCEPT !.err = e]]
               /\ UNCHANGED <<op, ret, fatal>>
          ELSE /\ pc' = [pc EXCEPT ![t] = "cf_wait"]
               /\ loc' = [loc EXCEPT ![t] = [@ EXCEPT !.queries = @ + 1]]
               /\ UNCHANGED <<op, ret, fatal>>
    /\ UNCHANGED <<now, config, cache, mu, ledger, license, slots,
                   helpers, requests, events, reported, heartbeat, calls>>

\* queryFeature: the authority's answer arrives, a FeatureStatus built from the
\* response (whose cache_ttl is decoded into result.CacheTTL), or an error.
QueryReply(t) ==
    /\ ~fatal
    /\ pc[t] = "cf_wait"
    /\ \/ /\ \E s \in ServerTTLs :
                loc' = [loc EXCEPT ![t] = [@ EXCEPT !.status = license, !.err = "",
                                                    !.cacheTTL = s]]
          /\ pc' = [pc EXCEPT ![t] = "cf_set"]
       \/ /\ loc' = [loc EXCEPT ![t] = [@ EXCEPT !.status = None,
                                                !.err = "request failed"]]
          /\ pc' = [pc EXCEPT ![t] = "cf_done"]
    /\ UNCHANGED <<now, config, cache, mu, ledger, license, op, ret, slots,
                   helpers, requests, events, reported, heartbeat, fatal, calls>>

\* Client.CheckFeature, second half: c.cache.set(featureID, status); the entry
\* lives for the configured fc.ttl (result.CacheTTL is not part of the
\* FeatureStatus that queryFeature returns).
CacheSet(t) ==
    /\ ~fatal
    /\ pc[t] = "cf_set"
    /\ cache' = [cache EXCEPT ![Client(t)] =
                    featureCache_set(@, loc[t].key, loc[t].status, now, ttl[Client(t)])]
    /\ pc' = [pc EXCEPT ![t] = "cf_done"]
    /\ UNCHANGED <<now, config, mu, ledger, license, op, loc, ret, slots,
                   helpers, requests, events, reported, heartbeat, fatal, calls>>

\* A call of CheckFeature(featureID) by the application.
CheckFeature(t, c, featureID) ==
    /\ CanCall(t, c)
    /\ op' = [op EXCEPT ![t] = [name |-> "CheckFeature", client |-> c, arg |-> 0]]
    /\ Lookup(t, c, featureID)
    /\ ret' = [ret EXCEPT ![t] = NoRet]
    /\ calls' = calls + 1
    /\ UNCHANGED <<now, config, cache, mu, ledger, license, slots,
                   helpers, requests, events, reported, heartbeat, fatal>>

\* CheckFeature returns (status, err) to the application.
CheckFeatureReturn(t) ==
    /\ ~fatal
    /\ pc[t] = "cf_done"
    /\ op[t].name = "CheckFeature"
    /\ ret' = [ret EXCEPT ![t] = [name |-> "CheckFeature", client |-> Client(t),
                                  key |-> loc[t].key, status |-> loc[t].status,
                                  err |-> loc[t].err, queries |-> loc[t].queries]]
    /\ pc' = [pc EXCEPT ![t] = "idle"]
    /\ op' = [op EXCEPT ![t] = NoOp]
    /\ loc' = [loc EXCEPT ![t] = NoLocals]
    /\ UNCHANGED <<now, config, cache, mu, ledger, license, slots,
                   helpers, requests, events, reported, heartbeat, fatal, calls>>

\* ClearCache dropping only the entries that have expired.
ClearCacheKeepsFresh(t, c) ==
    /\ CanCall(t, c)
    /\ cache' = [cache EXCEPT ![c] =
                    [k \in {j \in DOMAIN @ : now <= @[j].expiresAt} |-> @[k]]]
    /\ calls' = calls + 1
    /\ UNCHANGED <<now, config, mu, ledger, license, threadv, slots,
                   helpers, requests, events, reported, heartbeat, fatal>>

\* Client.ClearCache.
ClearCache(t, c) ==
    /\ CanCall(t, c)
    /\ cache' = [cache EXCEPT ![c] = featureCache_clear]
    /\ calls' = calls + 1
    /\ UNCHANGED <<now, config, mu, ledger, license, threadv, slots,
                   helpers, requests, events, reported, heartbeat, fatal>>

\* ------------------------------------------------- the concurrency ledger
\* concurrencyState[key]: a key that is not in the map reads as 0.
LedgerCount(m, key) == IF key \in DOMAIN m THEN m[key] ELSE 0

\* concurrencyState[key] = n
LedgerPut(m, key, n) == [k \in DOMAIN m \cup {key} |-> IF k = key THEN n ELSE m[k]]

\* delete(concurrencyState, key)
LedgerDelete(m, key) == [k \in DOMAIN m \ {key} |-> m[k]]

\* A release closure that leaves the ledger as it is.
ReleaseLedgerKeeps(m, key, cur) == m

\* The release closure of AcquireSlot: with cur the count it read,
\* delete the entry if cur <= 1, else store cur - 1.
ReleaseLedger(m, key, cur) ==
    IF cur <= 1 THEN LedgerDelete(m, key) ELSE LedgerPut(m, key, cur - 1)

\* The ledger key a thread's call works on: instanceID + "::" + featureID, with
\* "__product__" as the feature of the product-level AcquireSlot.
KeyOf(t) ==
    IF op[t].name = "release" THEN slots[op[t].arg].key
    ELSE LedgerKey(instanceID[Client(t)], loc[t].key)

Deprecated(t) == op[t].name = "AcquireSlotDeprecated"

\* What AcquireSlot / AcquireSlotDeprecated returns: the release function (the
\* number of its capability, 0 for the func() {} of a denied call), allowed,
\* the reason (deprecated) and the error; invoked counts the application's
\* invocations of the release function of a denied call.
AcquireResult(t, admitted, err, reason, slot) ==
    [name |-> op[t].name, client |-> Client(t), admitted |-> admitted,
     err |-> err, reason |-> reason, slot |-> slot, invoked |-> 0]

\* A call of AcquireSlot(): checkProductLimits() first.
AcquireSlot(t, c) ==
    /\ CanCall(t, c)
    /\ op' = [op EXCEPT ![t] = [name |-> "AcquireSlot", client |-> c, arg |-> 0]]
    /\ Lookup(t, c, ProductKey)
    /\ ret' = [ret EXCEPT ![t] = NoRet]
    /\ calls' = calls + 1
    /\ UNCHANGED <<now, config, cache, mu, ledger, license, slots,
                   helpers, requests, events, reported, heartbeat, fatal>>

\* A call of AcquireSlotDeprecated(featureID, meta): CheckFeature(featureID) first.
AcquireSlotDeprecated(t, c, featureID) ==
    /\ CanCall(t, c)
    /\ op' = [op EXCEPT ![t] = [name |-> "AcquireSlotDeprecated", client |-> c, arg |-> 0]]
    /\ Lookup(t, c, featureID)
    /\ ret' = [ret EXCEPT ![t] = NoRet]
    /\ calls' = calls + 1
    /\ UNCHANGED <<now, config, cache, mu, ledger, license, slots,
                   helpers, requests, events, reported, heartbeat, fatal>>

\* AcquireSlot / AcquireSlotDeprecated after the feature check: an error or a
\* missing concurrency limit ends the call, otherwise the thread goes for c.mu.
AcquireSlotLimit(t) ==
    /\ ~fatal
    /\ pc[t] = "cf_done"
    /\ op[t].name \in {"AcquireSlot", "AcquireSlotDeprecated"}
    /\ IF loc[t].err # ""
       THEN Return(t, AcquireResult(t, FALSE, loc[t].err,
                                    IF Deprecated(t) THEN "check_error" ELSE "", 0))
       ELSE IF loc[t].status.maxConcurrency <= 0
       THEN Return(t, IF Deprecated(t)
                      THEN AcquireResult(t, FALSE, "", "no_concurrency_limit", 0)
                      ELSE AcquireResult(t, FALSE, "no concurrency limit configured", "", 0))
       ELSE /\ pc' = [pc EXCEPT ![t] = "as_lock"]
            /\ UNCHANGED <<op, loc, ret>>
    /\ UNCHANGED <<now, config, cache, mu, ledger, license, slots,
                   helpers, requests, events, reported, heartbeat, fatal, calls>>

\* AcquireSlotRead with the comparison current > maxConcurrency.
AcquireSlotReadOffByOne(t) ==
    /\ ~fatal
    /\ pc[t] = "as_read"
    /\ LET current == LedgerCount(ledger, KeyOf(t)) IN
       IF current > loc[t].status.maxConcurrency
       THEN /\ Return(t, IF Deprecated(t)
                         THEN AcquireResult(t, FALSE, "", "concurrency_exceeded", 0)
                         ELSE AcquireResult(t, FALSE, "concurrency exceeded", "", 0))
            /\ mu' = [mu EXCEPT ![Client(t)] = NoThread]
       ELSE /\ loc' = [loc EXCEPT ![t] = [@ EXCEPT !.cur = current]]
            /\ pc' = [pc EXCEPT ![t] = "as_write"]
            /\ UNCHANGED <<op, ret, mu>>
    /\ UNCHANGED <<now, config, cache, ledger, license, slots,
                   helpers, requests, events, reported, heartbeat, fatal, calls>>

\* current := concurrencyState[key]; if current >= maxConcurrency the call is
\* denied and the deferred Unlock runs.
AcquireSlotRead(t) ==
    /\ ~fatal
    /\ pc[t] = "as_read"
    /\ LET current == LedgerCount(ledger, KeyOf(t)) IN
       IF current >= loc[t].status.maxConcurrency
       THEN /\ Return(t, IF Deprecated(t)
                         THEN AcquireResult(t, FALSE, "", "concurrency_exceeded", 0)
                         ELSE AcquireResult(t, FALSE, "concurrency exceeded", "", 0))
            /\ mu' = [mu EXCEPT ![Client(t)] = NoThread]
       ELSE /\ loc' = [loc EXCEPT ![t] = [@ EXCEPT !.cur = current]]
            /\ pc' = [pc EXCEPT ![t] = "as_write"]
            /\ UNCHANGED <<op, ret, mu>>
    /\ UNCHANGED <<now, config, cache, ledger, license, slots,
                   helpers, requests, events, reported, heartbeat, fatal, calls>>

\* Another call wrote the ledger entry of key: every capability on that key,
\* except the one numbered self, has seen a foreign acquire or release.
Touch(ss, key, self) ==
    [i \in DOMAIN ss |-> IF ss[i].key = key /\ i # self
                         THEN [ss[i] EXCEPT !.dirty = TRUE] ELSE ss[i]]

\* concurrencyState[key] = current + 1; the release closure is built and
\* returned with allowed = true; the deferred Unlock runs.
AcquireSlotWrite(t) ==
    /\ ~fatal
    /\ pc[t] = "as_write"
    /\ ledger' = LedgerPut(ledger, KeyOf(t), loc[t].cur + 1)
    /\ slots' = Append(Touch(slots, KeyOf(t), 0),
                       [client |-> Client(t), key |-> KeyOf(t),
                        before |-> loc[t].cur, invoked |-> 0, dirty |-> FALSE])
    /\ mu' = [mu EXCEPT ![Client(t)] = NoThread]
    /\ Return(t, AcquireResult(t, TRUE, "", IF Deprecated(t) THEN "ok" ELSE "",
                               Len(slots) + 1))
    /\ UNCHANGED <<now, config, cache, license,
                   helpers, requests, events, reported, heartbeat, fatal, calls>>

\* The application invokes release capability number i (once more).
Release(t, i) ==
    /\ i \in DOMAIN slots
    /\ CanCall(t, slots[i].client)
    /\ slots[i].invoked < MaxReleaseCalls
    /\ op' = [op EXCEPT ![t] = [name |-> "release", client |-> slots[i].client, arg |-> i]]
    /\ slots' = [slots EXCEPT ![i].invoked = @ + 1]
    /\ pc' = [pc EXCEPT ![t] = "rel_lock"]
    /\ ret' = [ret EXCEPT ![t] = NoRet]
    /\ calls' = calls + 1
    /\ UNCHANGED <<now, config, cache, mu, ledger, license, loc,
                   helpers, requests, events, reported, heartbeat, fatal>>

\* release: cur := concurrencyState[key]
ReleaseRead(t) ==
    /\ ~fatal
    /\ pc[t] = "rel_read"
    /\ loc' = [loc EXCEPT ![t] = [@ EXCEPT !.cur = LedgerCount(ledger, KeyOf(t))]]
    /\ pc' = [pc EXCEPT ![t] = "rel_write"]
    /\ UNCHANGED <<now, config, cache, mu, ledger, license, op, ret, slots,
                   helpers, requests, events, reported, heartbeat, fatal, calls>>

\* release: delete the entry or store cur - 1; the deferred Unlock runs.
ReleaseWrite(t) ==
    /\ ~fatal
    /\ pc[t] = "rel_write"
    /\ ledger' = ReleaseLedger(ledger, KeyOf(t), loc[t].cur)
    /\ slots' = Touch(slots, KeyOf(t), op[t].arg)
    /\ mu' = [mu EXCEPT ![Client(t)] = NoThread]
    /\ Return(t, [name |-> "release", client |-> Client(t), slot |-> op[t].arg])
    /\ UNCHANGED <<now, config, cache, license,
                   helpers, requests, events, reported, heartbeat, fatal, calls>>

\* ReleaseDenied running the release closure of an admitted slot on the
\* product-level key of the client.
ReleaseDeniedDecrements(t) ==
    /\ ~fatal
    /\ pc[t] = "idle"
    /\ calls < MaxCalls
    /\ ret[t].name \in {"AcquireSlot", "AcquireSlotDeprecated"}
    /\ ~ret[t].admitted
    /\ ret[t].invoked < MaxReleaseCalls
    /\ ret' = [ret EXCEPT ![t].invoked = @ + 1]
    /\ calls' = calls + 1
    /\ LET key == LedgerKey(instanceID[ret[t].client], ProductKey)
       IN ledger' = ReleaseLedger(ledger, key, LedgerCount(ledger, key))
    /\ UNCHANGED <<now, config, cache, mu, license, pc, op, loc, slots,
                   helpers, requests, events, reported, heartbeat, fatal>>

\* The application invokes the release function that a denied AcquireSlot /
\* AcquireSlotDeprecated returned to it (once more): func() {} does nothing.
ReleaseDenied(t) ==
    /\ ~fatal
    /\ pc[t] = "idle"
    /\ calls < MaxCalls
    /\ ret[t].name \in {"AcquireSlot", "AcquireSlotDeprecated"}
    /\ ~ret[t].admitted
    /\ ret[t].invoked < MaxReleaseCalls
    /\ ret' = [ret EXCEPT ![t].invoked = @ + 1]
    /\ calls' = calls + 1
    /\ UNCHANGED <<now, config, cache, mu, ledger, license, pc, op, loc, slots,
                   helpers, requests, events, reported, heartbeat, fatal>>

\* The threads that are between a read and a write of concurrencyState.
InLedger == {t \in Threads : pc[t] \in {"as_read", "as_write", "rel_read", "rel_write"}}

\* concurrencyState is a plain Go map: when two goroutines are in a ledger
\* section at once the accesses race, and the runtime may abort the process
\* ("fatal error: concurrent map read and map write").
MapFault ==
    /\ ~fatal
    /\ Cardinality(InLedger) >= 2
    /\ fatal' = TRUE
    /\ UNCHANGED <<now, config, cache, mu, ledger, license, threadv, slots,
                   helpers, requests, events, reported, heartbeat, calls>>

\* ------------------------------------------------- Register, Close, helpers
\* A call of Register(): its first statement is c.mu.Lock().
Register(t, c) ==
    /\ CanCall(t, c)
    /\ op' = [op EXCEPT ![t] = [name |-> "Register", client |-> c, arg |-> 0]]
    /\ pc' = [pc EXCEPT ![t] = "reg_lock"]
    /\ ret' = [ret EXCEPT ![t] = NoRet]
    /\ calls' = calls + 1
    /\ UNCHANGED <<now, config, cache, mu, ledger, license, loc, slots,
                   helpers, requests, events, reported, heartbeat, fatal>>

\* A call of Close(): its first statement is c.mu.Lock().
Close(t, c) ==
    /\ CanCall(t, c)
    /\ op' = [op EXCEPT ![t] = [name |-> "Close", client |-> c, arg |-> 0]]
    /\ pc' = [pc EXCEPT ![t] = "close_lock"]
    /\ ret' = [ret EXCEPT ![t] = NoRet]
    /\ calls' = calls + 1
    /\ UNCHANGED <<now, config, cache, mu, ledger, license, loc, slots,
                   helpers, requests, events, reported, heartbeat, fatal>>

\* The bundles an application may pass to RegisterHelpers: nil, or a struct in
\* which each slot holds an application function ("app") or nil ("nil").
Bundles ==
    {None} \cup [QuotaConsumer : {"nil", "app"}, TPSProvider : {"nil", "app"},
                 CapacityCounter : {"nil", "app"}]

\* HelperFunctions.Validate: nil bundle or nil CapacityCounter is an error.
Validate(h) ==
    IF h = None THEN "HelperFunctions cannot be nil"
    ELSE IF h.CapacityCounter = "nil" THEN "CapacityCounter is required"
    ELSE ""

\* HelperFunctions.SetDefaults: nil optional slots get the SDK's functions.
SetDefaults(h) ==
    [h EXCEPT !.QuotaConsumer = IF @ = "nil" THEN "default" ELSE @,
              !.TPSProvider = IF @ = "nil" THEN "internal" ELSE @]

\* RegisterHelpers without the call of Validate.
RegisterHelpersUnvalidated(t, c, h) ==
    /\ CanCall(t, c)
    /\ calls' = calls + 1
    /\ IF h = None
       THEN /\ Return(t, [name |-> "RegisterHelpers", client |-> c,
                          err |-> "helpers cannot be nil"])
       ELSE /\ op' = [op EXCEPT ![t] = [name |-> "RegisterHelpers", client |-> c,
                                        arg |-> SetDefaults(h)]]
            /\ pc' = [pc EXCEPT ![t] = "rh_lock"]
            /\ ret' = [ret EXCEPT ![t] = NoRet]
            /\ UNCHANGED loc
    /\ UNCHANGED <<now, config, cache, mu, ledger, license, slots,
                   helpers, requests, events, reported, heartbeat, fatal>>

\* A call of RegisterHelpers(h): nil check, Validate, SetDefaults, then c.mu.Lock().
RegisterHelpers(t, c, h) ==
    /\ CanCall(t, c)
    /\ calls' = calls + 1
    /\ IF h = None
       THEN /\ Return(t, [name |-> "RegisterHelpers", client |-> c,
                          err |-> "helpers cannot be nil"])
       ELSE IF Validate(h) # ""
       THEN /\ Return(t, [name |-> "RegisterHelpers", client |-> c,
                          err |-> "helper validation failed"])
       ELSE /\ op' = [op EXCEPT ![t] = [name |-> "RegisterHelpers", client |-> c,
                                        arg |-> SetDefaults(h)]]
            /\ pc' = [pc EXCEPT ![t] = "rh_lock"]
            /\ ret' = [ret EXCEPT ![t] = NoRet]
            /\ UNCHANGED loc
    /\ UNCHANGED <<now, config, cache, mu, ledger, license, slots,
                   helpers, requests, events, reported, heartbeat, fatal>>

\* Register under c.mu, up to the request body: c.keyPair.GetPublicKeyPEM()
\* dereferences a nil key pair after Close, a panic that ends the process, or
\* that the application recovers after the deferred Unlock has run; it fails
\* on a destroyed key pair; otherwise the thread goes on, holding c.mu, to
\* build and sign the request (position "reg_sign").  c.mu does not guard the
\* KeyPair: while it is being wiped (by the application, or by the Close of
\* another client built from it) the export succeeds, finds the public key
\* nil, or reads it nil the second time and panics.
RegisterLocked(t) ==
    LET c == Client(t) IN
    IF keyPair[c] = "nil"
    THEN /\ Panic(t, "Register", c)
         /\ UNCHANGED <<mu, heartbeat, helpers, keyPair, destroyed>>
    ELSE IF keyPair[c] \in destroyed
    THEN /\ Return(t, [name |-> "Register", client |-> c,
                       err |-> "failed to export public key"])
         /\ UNCHANGED <<mu, heartbeat, helpers, keyPair, destroyed, fatal>>
    ELSE \/ /\ mu' = [mu EXCEPT ![c] = t]
            /\ pc' = [pc EXCEPT ![t] = "reg_sign"]
            /\ UNCHANGED <<op, loc, ret, heartbeat, helpers, keyPair, destroyed, fatal>>
         \/ /\ keyPair[c] \in Wiping
            /\ Return(t, [name |-> "Register", client |-> c,
                          err |-> "failed to export public key"])
            /\ UNCHANGED <<mu, heartbeat, helpers, keyPair, destroyed, fatal>>
         \/ /\ keyPair[c] \in Wiping
            /\ Panic(t, "Register", c)
            /\ UNCHANGED <<mu, heartbeat, helpers, keyPair, destroyed>>

\* Register, from http.NewRequest to httpClient.Do, c.mu held: the request is
\* built and signed with the key pair as it is now (c.mu does not guard the
\* KeyPair, which the application, or the Close of another client built from
\* it, destroys); an error ends the call and the deferred Unlock runs, and so
\* does a panic the application recovers; otherwise the request is sent and
\* the thread waits for the answer, holding c.mu.
RegisterSign(t) ==
    LET c == Client(t) IN
    /\ ~fatal
    /\ pc[t] = "reg_sign"
    /\ \E e \in RequestErrors(c) :
          IF e = SignPanic
          THEN \/ /\ fatal' = TRUE
                  /\ UNCHANGED <<mu, threadv>>
               \/ /\ mu' = [mu EXCEPT ![c] = NoThread]
                  /\ Return(t, Recovered("Register", c))
                  /\ UNCHANGED fatal
          ELSE IF e # ""
          THEN /\ mu' = [mu EXCEPT ![c] = NoThread]
               /\ Return(t, [name |-> "Register", client |-> c, err |-> e])
               /\ UNCHANGED fatal
          ELSE /\ pc' = [pc EXCEPT ![t] = "reg_wait"]
               /\ UNCHANGED <<mu, op, loc, ret, fatal>>
    /\ UNCHANGED <<now, config, cache, ledger, license, slots,
                   helpers, requests, events, reported, heartbeat, calls>>

\* startHeartbeatLoop from c.mu.Lock() to c.mu.Unlock(): when a loop is
\* running it unlocks and returns to Register (position "reg_unlock");
\* otherwise it makes a context, stores its cancel function, sets the running
\* flag and unlocks, the loop goroutine not yet started (position "hb_go").
\* c.mu is free again when the step is over.
StartHeartbeatLocked(t) ==
    LET c == Client(t)
        h == heartbeat[c]
    IN
    /\ IF h.running
       THEN /\ pc' = [pc EXCEPT ![t] = "reg_unlock"]
            /\ UNCHANGED <<heartbeat, loc>>
       ELSE /\ heartbeat' = [heartbeat EXCEPT ![c] =
                                [h EXCEPT !.running = TRUE, !.cancel = h.ctxs + 1,
                                          !.ctxs = h.ctxs + 1]]
            /\ loc' = [loc EXCEPT ![t] = [@ EXCEPT !.ctx = h.ctxs + 1]]
            /\ pc' = [pc EXCEPT ![t] = "hb_go"]
    /\ UNCHANGED <<mu, op, ret, helpers, keyPair, destroyed, fatal>>

\* startHeartbeatLoop after its Unlock: the go statement starts the loop
\* goroutine with the context made before, which a Close that ran since has
\* cancelled; the call returns to Register (position "reg_unlock").
StartHeartbeatGo(t) ==
    LET c == Client(t)
        h == heartbeat[c]
    IN
    /\ ~fatal
    /\ pc[t] = "hb_go"
    /\ heartbeat' = [heartbeat EXCEPT ![c] =
                        [h EXCEPT !.loops = h.loops + 1,
                                  !.cancelled = IF h.cancel = loc[t].ctx THEN h.cancelled
                                                ELSE h.cancelled + 1]]
    /\ pc' = [pc EXCEPT ![t] = "reg_unlock"]
    /\ UNCHANGED <<now, config, cache, mu, ledger, license, op, loc, ret, slots,
                   helpers, requests, events, reported, fatal, calls>>

\* Register returns nil after startHeartbeatLoop and its deferred
\* c.mu.Unlock() runs, on a mutex startHeartbeatLoop has locked and unlocked
\* since: when no thread holds c.mu the runtime aborts the process ("fatal
\* error: sync: Unlock of unlocked RWMutex"); when another thread has taken
\* c.mu in the meantime the Unlock releases that thread's lock.
RegisterUnlock(t) ==
    LET c == Client(t) IN
    /\ ~fatal
    /\ pc[t] = "reg_unlock"
    /\ IF mu[c] = NoThread
       THEN /\ fatal' = TRUE
            /\ UNCHANGED <<mu, threadv>>
       ELSE /\ mu' = [mu EXCEPT ![c] = NoThread]
            /\ Return(t, [name |-> "Register", client |-> c, err |-> ""])
            /\ UNCHANGED fatal
    /\ UNCHANGED <<now, config, cache, ledger, license, slots,
                   helpers, requests, events, reported, heartbeat, calls>>

\* Close takes c.mu and goes on to its body, which runs while other threads
\* run theirs (position "close_destroy").
CloseLocked(t) ==
    /\ mu' = [mu EXCEPT ![Client(t)] = t]
    /\ pc' = [pc EXCEPT ![t] = "close_destroy"]
    /\ UNCHANGED <<op, loc, ret, heartbeat, helpers, keyPair, destroyed, fatal>>

\* Close under c.mu: the heartbeat is cancelled (the loop goroutine lives on,
\* its context cancelled, until its next select), the key pair, when c.keyPair is not
\* nil, is destroyed and c.keyPair set to nil; the deferred Unlock runs.  When
\* another thread is inside Destroy on the same key pair the dereference of
\* kp.privateKey may panic: the process dies, or the application recovers
\* the panic, c.mu released by the deferred Unlock and c.keyPair left set.
CloseDestroy(t) ==
    LET c == Client(t)
        h == heartbeat[c]
        cancelled == [heartbeat EXCEPT ![c] =
                         IF h.cancel # 0 THEN [h EXCEPT !.running = FALSE, !.cancel = 0,
                                                        !.cancelled = h.loops]
                         ELSE h]
    IN
    /\ ~fatal
    /\ pc[t] = "close_destroy"
    /\ \/ /\ heartbeat' = cancelled
          /\ destroyed' = IF keyPair[c] = "nil" THEN destroyed
                          ELSE destroyed \cup {keyPair[c]}
          /\ keyPair' = [keyPair EXCEPT ![c] = "nil"]
          /\ mu' = [mu EXCEPT ![c] = NoThread]
          /\ Return(t, [name |-> "Close", client |-> c, err |-> ""])
          /\ UNCHANGED fatal
       \/ /\ DestroyRace(t)
          /\ \/ /\ fatal' = TRUE
                /\ UNCHANGED <<threadv, mu, heartbeat>>
             \/ /\ heartbeat' = cancelled
                /\ mu' = [mu EXCEPT ![c] = NoThread]
                /\ Return(t, Recovered("Close", c))
                /\ UNCHANGED fatal
          /\ UNCHANGED <<keyPair, destroyed>>
    /\ UNCHANGED <<now, clients, signerKey, instanceID, ttl, baseURL, cache, ledger,
                   license, slots, helpers, requests, events, reported, calls>>

\* A call of kp.Destroy() by the application, which holds the *KeyPair it
\* built its clients from (position "kp_destroy" while Destroy runs).
Destroy(t, kp) ==
    /\ ~fatal
    /\ pc[t] = "idle"
    /\ calls < MaxCalls
    /\ \E c \in clients : signerKey[c] = kp
    /\ op' = [op EXCEPT ![t] = [name |-> "Destroy",
                                client |-> CHOOSE c \in clients : signerKey[c] = kp,
                                arg |-> kp]]
    /\ pc' = [pc EXCEPT ![t] = "kp_destroy"]
    /\ ret' = [ret EXCEPT ![t] = NoRet]
    /\ calls' = calls + 1
    /\ UNCHANGED <<now, config, cache, mu, ledger, license, loc, slots,
                   helpers, requests, events, reported, heartbeat, fatal>>

\* KeyPair.Destroy: the private key's numbers are zeroed and both key fields
\* set to nil; every client built from the key pair keeps its c.keyPair and
\* its signer, which point to the wiped KeyPair.  When another thread is
\* inside Destroy on the same key pair the dereference of kp.privateKey may
\* panic.
DestroyWipe(t) ==
    /\ ~fatal
    /\ pc[t] = "kp_destroy"
    /\ \/ /\ destroyed' = destroyed \cup {op[t].arg}
          /\ Return(t, [name |-> "Destroy", client |-> Client(t), err |-> ""])
          /\ UNCHANGED fatal
       \/ /\ DestroyRace(t)
          /\ Panic(t, "Destroy", Client(t))
          /\ UNCHANGED destroyed
    /\ UNCHANGED <<now, clients, signerKey, keyPair, instanceID, ttl, baseURL, cache, mu,
                   ledger, license, slots, helpers, requests, events, reported,
                   heartbeat, calls>>

\* One tick of a heartbeat loop of client c, in the goroutine
\* startHeartbeatLoop started: sendHeartbeat builds, signs and sends a
\* request, and the loop drops the error it returns.  A signature that races
\* with KeyPair.Destroy may dereference nil, and a panic in this goroutine
\* ends the process; a tick changes nothing else.
sendHeartbeat(c) ==
    /\ ~fatal
    /\ c \in clients
    /\ heartbeat[c].loops > 0
    /\ IF SignPanic \in RequestErrors(c)
       THEN fatal' \in {TRUE, FALSE}
       ELSE UNCHANGED fatal
    /\ UNCHANGED <<now, config, cache, mu, ledger, license, threadv, slots,
                   helpers, requests, events, reported, heartbeat, calls>>

\* The loop goroutine of client c reaches its select with its context
\* cancelled (case <-ctx.Done()) and returns.
heartbeatDone(c) ==
    /\ ~fatal
    /\ c \in clients
    /\ heartbeat[c].cancelled > 0
    /\ heartbeat' = [heartbeat EXCEPT ![c] = [@ EXCEPT !.loops = @ - 1,
                                                       !.cancelled = @ - 1]]
    /\ UNCHANGED <<now, config, cache, mu, ledger, license, threadv, slots,
                   helpers, requests, events, reported, fatal, calls>>

\* RegisterHelpers under c.mu: c.helpers = helpers.
RegisterHelpersLocked(t) ==
    /\ helpers' = [helpers EXCEPT ![Client(t)] = op[t].arg]
    /\ Return(t, [name |-> "RegisterHelpers", client |-> Client(t), err |-> ""])
    /\ UNCHANGED <<mu, heartbeat, keyPair, destroyed, fatal>>

\* AcquireSlot and the release closure go on to their ledger section.
LedgerLocked(t, next) ==
    /\ mu' = [mu EXCEPT ![Client(t)] = t]
    /\ pc' = [pc EXCEPT ![t] = next]
    /\ UNCHANGED <<op, loc, ret, heartbeat, helpers, keyPair, destroyed, fatal>>

\* c.mu.Lock() at every place the client calls it: the thread waits until no
\* thread holds c.mu (sync.RWMutex is not reentrant: a thread that holds c.mu
\* waits for itself), then runs the section up to its next blocking point.
Lock(t) ==
    /\ ~fatal
    /\ pc[t] \in {"reg_lock", "hb_lock", "close_lock", "rh_lock", "as_lock", "rel_lock"}
    /\ mu[Client(t)] = NoThread
    /\ CASE pc[t] = "reg_lock" -> RegisterLocked(t)
         [] pc[t] = "hb_lock" -> StartHeartbeatLocked(t)
         [] pc[t] = "close_lock" -> CloseLocked(t)
         [] pc[t] = "rh_lock" -> RegisterHelpersLocked(t)
         [] pc[t] = "as_lock" -> LedgerLocked(t, "as_read")
         [] pc[t] = "rel_lock" -> LedgerLocked(t, "rel_read")
    /\ UNCHANGED <<now, clients, signerKey, instanceID, ttl, baseURL, cache, ledger, license,
                   slots, requests, events, reported, calls>>

\* The authority answers the registration request: on 200 Register calls
\* startHeartbeatLoop, whose first statement is c.mu.Lock(); on a failure
\* (no answer, or a status other than 200) it returns the error and its
\* deferred Unlock runs.
RegisterReply(t) ==
    /\ ~fatal
    /\ pc[t] = "reg_wait"
    /\ \/ /\ pc' = [pc EXCEPT ![t] = "hb_lock"]
          /\ UNCHANGED <<mu, op, loc, ret>>
       \/ /\ mu' = [mu EXCEPT ![Client(t)] = NoThread]
          /\ \E e \in {"request failed", "registration failed"} :
                Return(t, [name |-> "Register", client |-> Client(t), err |-> e])
    /\ UNCHANGED <<now, config, cache, ledger, license, slots,
                   helpers, requests, events, reported, heartbeat, fatal, calls>>

\* ------------------------------------------------- the rate estimator
\* tpsTracker.window: one second, the clock ticking every half second.
Window == 2

\* RecordRequest whose loop has no break: validIdx ends as the index of the
\* last timestamp after the cutoff.
RecordRequestNoBreak(reqs, t) ==
    LET r == Append(reqs, t)
        cutoff == t - Window
        after == {i \in 1..Len(r) : r[i] > cutoff}
        validIdx == IF after = {} THEN 0
                    ELSE (CHOOSE i \in after : \A j \in after : i >= j) - 1
    IN IF validIdx > 0 THEN SubSeq(r, validIdx + 1, Len(r)) ELSE r

\* tpsTracker.RecordRequest: append now; validIdx is the index of the first
\* timestamp after the cutoff (0 when the loop finds none); the timestamps
\* before it are dropped when validIdx > 0.
RecordRequest(reqs, t) ==
    LET r == Append(reqs, t)
        cutoff == t - Window
        after == {i \in 1..Len(r) : r[i] > cutoff}
        validIdx == IF after = {} THEN 0
                    ELSE (CHOOSE i \in after : \A j \in after : i <= j) - 1
    IN IF validIdx > 0 THEN SubSeq(r, validIdx + 1, Len(r)) ELSE r

\* tpsTracker.getCurrentRate: the number of timestamps after now - window.
getCurrentRate(reqs, t) == Cardinality({i \in 1..Len(reqs) : reqs[i] > t - Window})

\* ------------------------------------------------- Consume, CheckCapacity, CheckTPS
\* The calls that run Consume's body, and those that run CheckCapacity's.
ConsumeCalls == {"Consume", "ConsumeWithContext"}
CheckCapacityCalls == {"CheckCapacity", "CheckCapacityWithHelper"}

Result(t, admitted, value, err) ==
    [name |-> op[t].name, client |-> Client(t), admitted |-> admitted,
     value |-> value, err |-> err]

\* Consume without the call of RecordRequest.
ConsumeUnrecorded(t, c, amount) ==
    /\ CanCall(t, c)
    /\ op' = [op EXCEPT ![t] = [name |-> "Consume", client |-> c, arg |-> amount]]
    /\ pc' = [pc EXCEPT ![t] = "cf_get"]
    /\ ret' = [ret EXCEPT ![t] = NoRet]
    /\ calls' = calls + 1
    /\ UNCHANGED <<now, config, cache, mu, ledger, license, loc, slots,
                   helpers, requests, events, reported, heartbeat, fatal>>

\* A call of Consume(amount): c.tpsTracker.RecordRequest(), then checkProductLimits().
Consume(t, c, amount) ==
    /\ CanCall(t, c)
    /\ op' = [op EXCEPT ![t] = [name |-> "Consume", client |-> c, arg |-> amount]]
    /\ requests' = [requests EXCEPT ![c] = RecordRequest(@, now)]
    /\ events' = [events EXCEPT ![c] = Append(@, now)]
    /\ pc' = [pc EXCEPT ![t] = "cf_get"]
    /\ ret' = [ret EXCEPT ![t] = NoRet]
    /\ calls' = calls + 1
    /\ UNCHANGED <<now, config, cache, mu, ledger, license, loc, slots,
                   helpers, reported, heartbeat, fatal>>

\* checkProductLimits(): CheckFeature("__product__") by a call that did
\* something else first.
CheckProductLimits(t) ==
    /\ ~fatal
    /\ pc[t] = "cf_get"
    /\ Lookup(t, Client(t), ProductKey)
    /\ UNCHANGED <<now, config, cache, mu, ledger, license, op, ret, slots,
                   helpers, requests, events, reported, heartbeat, fatal, calls>>

\* ConsumeCheck sending the usage report even when the feature check failed.
ConsumeCheckReportsOnError(t) ==
    /\ ~fatal
    /\ pc[t] = "cf_done"
    /\ op[t].name \in ConsumeCalls
    /\ IF loc[t].err # ""
       THEN /\ Return(t, Result(t, FALSE, 0, loc[t].err))
            /\ reported' = Append(reported, op[t].arg)
       ELSE IF ~loc[t].status.enabled
       THEN /\ Return(t, Result(t, FALSE,
                                IF loc[t].status.quota >= 0 THEN loc[t].status.quota ELSE 0,
                                "quota exceeded"))
            /\ UNCHANGED reported
       ELSE /\ pc' = [pc EXCEPT ![t] = "ru_wait"]
            /\ reported' = Append(reported, op[t].arg)
            /\ loc' = [loc EXCEPT ![t] = [@ EXCEPT !.reports = @ + 1]]
            /\ UNCHANGED <<op, ret>>
    /\ UNCHANGED <<now, config, cache, mu, ledger, license, slots,
                   helpers, requests, events, heartbeat, fatal, calls>>

\* ConsumeCheck sending the usage report before it looks at status.Enabled.
ConsumeCheckReportsDenied(t) ==
    /\ ~fatal
    /\ pc[t] = "cf_done"
    /\ op[t].name \in ConsumeCalls
    /\ IF loc[t].err # ""
       THEN /\ Return(t, Result(t, FALSE, 0, loc[t].err))
            /\ UNCHANGED reported
       ELSE IF ~loc[t].status.enabled
       THEN /\ Return(t, Result(t, FALSE,
                                IF loc[t].status.quota >= 0 THEN loc[t].status.quota ELSE 0,
                                "quota exceeded"))
            /\ reported' = Append(reported, op[t].arg)
       ELSE /\ pc' = [pc EXCEPT ![t] = "ru_wait"]
            /\ reported' = Append(reported, op[t].arg)
            /\ loc' = [loc EXCEPT ![t] = [@ EXCEPT !.reports = @ + 1]]
            /\ UNCHANGED <<op, ret>>
    /\ UNCHANGED <<now, config, cache, mu, ledger, license, slots,
                   helpers, requests, events, heartbeat, fatal, calls>>

\* ConsumeCheck with a second denial: amount > status.Quota.Remaining.
ConsumeCheckLocalQuota(t) ==
    /\ ~fatal
    /\ pc[t] = "cf_done"
    /\ op[t].name \in ConsumeCalls
    /\ IF loc[t].err # ""
       THEN /\ Return(t, Result(t, FALSE, 0, loc[t].err))
            /\ UNCHANGED reported
       ELSE IF ~loc[t].status.enabled
               \/ (loc[t].status.quota >= 0 /\ op[t].arg > loc[t].status.quota)
       THEN /\ Return(t, Result(t, FALSE,
                                IF loc[t].status.quota >= 0 THEN loc[t].status.quota ELSE 0,
                                "quota exceeded"))
            /\ UNCHANGED reported
       ELSE /\ pc' = [pc EXCEPT ![t] = "ru_wait"]
            /\ reported' = Append(reported, op[t].arg)
            /\ loc' = [loc EXCEPT ![t] = [@ EXCEPT !.reports = @ + 1]]
            /\ UNCHANGED <<op, ret>>
    /\ UNCHANGED <<now, config, cache, mu, ledger, license, slots,
                   helpers, requests, events, heartbeat, fatal, calls>>

\* Consume after the feature check: an error or a status that is not enabled
\* ends the call; otherwise reportProductUsage(amount) signs and sends the
\* usage report and the thread waits for the answer.
ConsumeCheck(t) ==
    /\ ~fatal
    /\ pc[t] = "cf_done"
    /\ op[t].name \in ConsumeCalls
    /\ IF loc[t].err # ""
       THEN /\ Return(t, Result(t, FALSE, 0, loc[t].err))
            /\ UNCHANGED <<reported, fatal>>
       ELSE IF ~loc[t].status.enabled
       THEN /\ Return(t, Result(t, FALSE,
                                IF loc[t].status.quota >= 0 THEN loc[t].status.quota ELSE 0,
                                "quota exceeded"))
            /\ UNCHANGED <<reported, fatal>>
       ELSE \E e \in RequestErrors(Client(t)) :
               IF e = SignPanic
               THEN /\ Panic(t, op[t].name, Client(t))
                    /\ UNCHANGED reported
               ELSE IF e # ""
               THEN /\ Return(t, Result(t, FALSE, 0, e))
                    /\ UNCHANGED <<reported, fatal>>
               ELSE /\ pc' = [pc EXCEPT ![t] = "ru_wait"]
                    /\ reported' = Append(reported, op[t].arg)
                    /\ loc' = [loc EXCEPT ![t] = [@ EXCEPT !.reports = @ + 1]]
                    /\ UNCHANGED <<op, ret, fatal>>
    /\ UNCHANGED <<now, config, cache, mu, ledger, license, slots,
                   helpers, requests, events, heartbeat, calls>>

\* UsageReply returning remaining - amount without the clamp at 0.
UsageReplyUnclamped(t) ==
    /\ ~fatal
    /\ pc[t] = "ru_wait"
    /\ op[t].name \in ConsumeCalls
    /\ \/ Return(t, Result(t, TRUE,
                           IF loc[t].status.quota >= 0
                           THEN loc[t].status.quota - op[t].arg ELSE 0,
                           ""))
       \/ Return(t, Result(t, FALSE, 0, "usage report failed"))
    /\ UNCHANGED <<now, config, cache, mu, ledger, license, slots,
                   helpers, requests, events, reported, heartbeat, fatal, calls>>

\* UsageReply sending the report once more when the first attempt failed.
UsageReplyRetries(t) ==
    /\ ~fatal
    /\ pc[t] = "ru_wait"
    /\ op[t].name \in ConsumeCalls
    /\ \/ /\ Return(t, Result(t, TRUE,
                              IF loc[t].status.quota >= 0
                              THEN Max(0, loc[t].status.quota - op[t].arg) ELSE 0,
                              ""))
          /\ UNCHANGED reported
       \/ IF loc[t].reports < 2
          THEN /\ reported' = Append(reported, op[t].arg)
               /\ loc' = [loc EXCEPT ![t] = [@ EXCEPT !.reports = @ + 1]]
               /\ UNCHANGED <<pc, op, ret>>
          ELSE /\ Return(t, Result(t, FALSE, 0, "usage report failed"))
               /\ UNCHANGED reported
    /\ UNCHANGED <<now, config, cache, mu, ledger, license, slots,
                   helpers, requests, events, heartbeat, fatal, calls>>

\* UsageReply keeping a local account: an acknowledged report lowers the
\* remaining quota of the cached snapshot by the amount.
UsageReplyDebitsCache(t) ==
    /\ ~fatal
    /\ pc[t] = "ru_wait"
    /\ op[t].name \in ConsumeCalls
    /\ \/ /\ Return(t, Result(t, TRUE,
                              IF loc[t].status.quota >= 0
                              THEN Max(0, loc[t].status.quota - op[t].arg) ELSE 0,
                              ""))
          /\ cache' = [cache EXCEPT ![Client(t)] =
                          [k \in DOMAIN @ |->
                              IF k = ProductKey /\ @[k].status.quota >= 0
                              THEN [@[k] EXCEPT !.status.quota = Max(0, @ - op[t].arg)]
                              ELSE @[k]]]
       \/ /\ Return(t, Result(t, FALSE, 0, "usage report failed"))
          /\ UNCHANGED cache
    /\ UNCHANGED <<now, config, mu, ledger, license, slots,
                   helpers, requests, events, reported, heartbeat, fatal, calls>>

\* reportProductUsage in Consume: the authority acknowledges the report
\* (Consume returns true and max(0, remaining - amount), or 0 without a quota
\* block) or the request fails.
UsageReply(t) ==
    /\ ~fatal
    /\ pc[t] = "ru_wait"
    /\ op[t].name \in ConsumeCalls
    /\ \/ Return(t, Result(t, TRUE,
                           IF loc[t].status.quota >= 0
                           THEN Max(0, loc[t].status.quota - op[t].arg) ELSE 0,
                           ""))
       \/ Return(t, Result(t, FALSE, 0, "usage report failed"))
    /\ UNCHANGED <<now, config, cache, mu, ledger, license, slots,
                   helpers, requests, events, reported, heartbeat, fatal, calls>>

\* A call of ReportUsage(featureID, amount) by the application itself, amount
\* a float64 given here in halves: the request carries int(amount), is built,
\* signed and sent, and the thread waits for the answer.  No feature check,
\* rate record or admission comes first.
ReportUsage(t, c, featureID, halves) ==
    /\ CanCall(t, c)
    /\ calls' = calls + 1
    /\ \E e \in RequestErrors(c) :
          IF e = SignPanic
          THEN /\ Panic(t, "ReportUsage", c)
               /\ UNCHANGED reported
          ELSE IF e # ""
          THEN /\ Return(t, [name |-> "ReportUsage", client |-> c, err |-> e])
               /\ UNCHANGED <<reported, fatal>>
          ELSE /\ op' = [op EXCEPT ![t] = [name |-> "ReportUsage", client |-> c,
                                           arg |-> halves \div 2]]
               /\ pc' = [pc EXCEPT ![t] = "ru_wait"]
               /\ loc' = [loc EXCEPT ![t] = [@ EXCEPT !.key = featureID, !.reports = 1]]
               /\ reported' = Append(reported, halves \div 2)
               /\ ret' = [ret EXCEPT ![t] = NoRet]
               /\ UNCHANGED fatal
    /\ UNCHANGED <<now, config, cache, mu, ledger, license, slots,
                   helpers, requests, events, heartbeat>>

\* ReportUsage called by the application: the authority acknowledges the
\* report (nil) or the request fails (no answer, or a status other than 200).
ReportUsageReply(t) ==
    /\ ~fatal
    /\ pc[t] = "ru_wait"
    /\ op[t].name = "ReportUsage"
    /\ \E e \in {"", "request failed", "usage report failed"} :
          Return(t, [name |-> "ReportUsage", client |-> Client(t), err |-> e])
    /\ UNCHANGED <<now, config, cache, mu, ledger, license, slots,
                   helpers, requests, events, reported, heartbeat, fatal, calls>>

\* A call of CheckCapacity(currentUsed): checkProductLimits() first.
CheckCapacity(t, c, currentUsed) ==
    /\ CanCall(t, c)
    /\ op' = [op EXCEPT ![t] = [name |-> "CheckCapacity", client |-> c, arg |-> currentUsed]]
    /\ Lookup(t, c, ProductKey)
    /\ ret' = [ret EXCEPT ![t] = NoRet]
    /\ calls' = calls + 1
    /\ UNCHANGED <<now, config, cache, mu, ledger, license, slots,
                   helpers, requests, events, reported, heartbeat, fatal>>

\* CheckCapacityCheck admitting when no capacity limit is configured.
CheckCapacityCheckOpen(t) ==
    /\ ~fatal
    /\ pc[t] = "cf_done"
    /\ op[t].name \in CheckCapacityCalls
    /\ LET maxCapacity == loc[t].status.maxCapacity IN
       IF loc[t].err # ""
       THEN Return(t, Result(t, FALSE, 0, loc[t].err))
       ELSE IF maxCapacity <= 0
       THEN Return(t, Result(t, TRUE, 0, ""))
       ELSE IF op[t].arg >= maxCapacity
       THEN Return(t, Result(t, FALSE, maxCapacity, "capacity exceeded"))
       ELSE Return(t, Result(t, TRUE, maxCapacity, ""))
    /\ UNCHANGED <<now, config, cache, mu, ledger, license, slots,
                   helpers, requests, events, reported, heartbeat, fatal, calls>>

\* CheckCapacityCheck with the comparison currentUsed > maxCapacity.
CheckCapacityCheckInclusive(t) ==
    /\ ~fatal
    /\ pc[t] = "cf_done"
    /\ op[t].name \in CheckCapacityCalls
    /\ LET maxCapacity == loc[t].status.maxCapacity IN
       IF loc[t].err # ""
       THEN Return(t, Result(t, FALSE, 0, loc[t].err))
       ELSE IF maxCapacity <= 0
       THEN Return(t, Result(t, FALSE, 0, "no capacity limit configured"))
       ELSE IF op[t].arg > maxCapacity
       THEN Return(t, Result(t, FALSE, maxCapacity, "capacity exceeded"))
       ELSE Return(t, Result(t, TRUE, maxCapacity, ""))
    /\ UNCHANGED <<now, config, cache, mu, ledger, license, slots,
                   helpers, requests, events, reported, heartbeat, fatal, calls>>

\* CheckCapacity after the feature check.
CheckCapacityCheck(t) ==
    /\ ~fatal
    /\ pc[t] = "cf_done"
    /\ op[t].name \in CheckCapacityCalls
    /\ LET maxCapacity == loc[t].status.maxCapacity IN
       IF loc[t].err # ""
       THEN Return(t, Result(t, FALSE, 0, loc[t].err))
       ELSE IF maxCapacity <= 0
       THEN Return(t, Result(t, FALSE, 0, "no capacity limit configured"))
       ELSE IF op[t].arg >= maxCapacity
       THEN Return(t, Result(t, FALSE, maxCapacity, "capacity exceeded"))
       ELSE Return(t, Result(t, TRUE, maxCapacity, ""))
    /\ UNCHANGED <<now, config, cache, mu, ledger, license, slots,
                   helpers, requests, events, reported, heartbeat, fatal, calls>>

\* The rates an application's TPSProvider may report.
Rates == {0, 1, 2}

\* A call of CheckTPS(): getCurrentTPS() starts with c.mu.RLock().  r is what
\* the application's TPSProvider returns when getCurrentTPS calls it.
CheckTPS(t, c, r) ==
    /\ CanCall(t, c)
    /\ op' = [op EXCEPT ![t] = [name |-> "CheckTPS", client |-> c, arg |-> r]]
    /\ pc' = [pc EXCEPT ![t] = "tps_rlock"]
    /\ ret' = [ret EXCEPT ![t] = NoRet]
    /\ calls' = calls + 1
    /\ UNCHANGED <<now, config, cache, mu, ledger, license, loc, slots,
                   helpers, requests, events, reported, heartbeat, fatal>>

\* c.mu.RLock(); helpers := c.helpers; c.mu.RUnlock(): the start of
\* getCurrentTPS, ConsumeWithContext and CheckCapacityWithHelper.  The thread
\* waits while a thread holds c.mu, keeps the bundle it read and goes on, the
\* lock released, at position next.
ReadHelpers(t, from, next) ==
    /\ ~fatal
    /\ pc[t] = from
    /\ mu[Client(t)] = NoThread
    /\ loc' = [loc EXCEPT ![t] = [@ EXCEPT !.helpers = helpers[Client(t)]]]
    /\ pc' = [pc EXCEPT ![t] = next]
    /\ UNCHANGED <<now, config, cache, mu, ledger, license, op, ret, slots,
                   helpers, requests, events, reported, heartbeat, fatal, calls>>

\* getCurrentTPS: the read of c.helpers under the read lock.
getCurrentTPS(t) == ReadHelpers(t, "tps_rlock", "tps_rate")

\* getCurrentTPSRate using the internal tracker whatever is registered.
getCurrentTPSInternalOnly(t) ==
    /\ ~fatal
    /\ pc[t] = "tps_rate"
    /\ LET r == getCurrentRate(requests[Client(t)], now)
       IN loc' = [loc EXCEPT ![t] = [@ EXCEPT !.cur = r]]
    /\ pc' = [pc EXCEPT ![t] = "cf_get"]
    /\ UNCHANGED <<now, config, cache, mu, ledger, license, op, ret, slots,
                   helpers, requests, events, reported, heartbeat, fatal, calls>>

\* getCurrentTPS after the read lock: the TPSProvider of the bundle it read
\* when that is an application's, else the internal tracker's rate as it is
\* now (SetDefaults' provider calls getInternalTPS too).
getCurrentTPSRate(t) ==
    /\ ~fatal
    /\ pc[t] = "tps_rate"
    /\ LET h == loc[t].helpers
           r == IF h # None /\ h.TPSProvider = "app"
                THEN op[t].arg
                ELSE getCurrentRate(requests[Client(t)], now)
       IN loc' = [loc EXCEPT ![t] = [@ EXCEPT !.cur = r]]
    /\ pc' = [pc EXCEPT ![t] = "cf_get"]
    /\ UNCHANGED <<now, config, cache, mu, ledger, license, op, ret, slots,
                   helpers, requests, events, reported, heartbeat, fatal, calls>>

\* CheckTPSCheck with the comparison currentTPS >= maxTPS.
CheckTPSCheckStrict(t) ==
    /\ ~fatal
    /\ pc[t] = "cf_done"
    /\ op[t].name = "CheckTPS"
    /\ LET maxTPS == loc[t].status.maxTPS IN
       IF loc[t].err # ""
       THEN Return(t, Result(t, FALSE, 0, loc[t].err))
       ELSE IF maxTPS <= 0
       THEN Return(t, Result(t, TRUE, 0, ""))
       ELSE IF loc[t].cur >= maxTPS
       THEN Return(t, Result(t, FALSE, maxTPS, "TPS exceeded"))
       ELSE Return(t, Result(t, TRUE, maxTPS, ""))
    /\ UNCHANGED <<now, config, cache, mu, ledger, license, slots,
                   helpers, requests, events, reported, heartbeat, fatal, calls>>

\* CheckTPS after the feature check.
CheckTPSCheck(t) ==
    /\ ~fatal
    /\ pc[t] = "cf_done"
    /\ op[t].name = "CheckTPS"
    /\ LET maxTPS == loc[t].status.maxTPS IN
       IF loc[t].err # ""
       THEN Return(t, Result(t, FALSE, 0, loc[t].err))
       ELSE IF maxTPS <= 0
       THEN Return(t, Result(t, TRUE, 0, ""))
       ELSE IF loc[t].cur > maxTPS
       THEN Return(t, Result(t, FALSE, maxTPS, "TPS exceeded"))
       ELSE Return(t, Result(t, TRUE, maxTPS, ""))
    /\ UNCHANGED <<now, config, cache, mu, ledger, license, slots,
                   helpers, requests, events, reported, heartbeat, fatal, calls>>

\* ------------------------------------------------- the helper-driven variants
\* The amount ConsumeWithContext consumes: defaultQuotaConsumer returns 1, an
\* application's QuotaConsumer returns what it computes from the arguments (a).
QuotaConsumer(h, a) == IF h.QuotaConsumer = "default" THEN 1 ELSE a

\* A call of ConsumeWithContext(ctx, args...): its first statement is
\* c.mu.RLock().  a is what an application QuotaConsumer computes from args.
ConsumeWithContext(t, c, a) ==
    /\ CanCall(t, c)
    /\ op' = [op EXCEPT ![t] = [name |-> "ConsumeWithContext", client |-> c, arg |-> a]]
    /\ pc' = [pc EXCEPT ![t] = "cwc_rlock"]
    /\ ret' = [ret EXCEPT ![t] = NoRet]
    /\ calls' = calls + 1
    /\ UNCHANGED <<now, config, cache, mu, ledger, license, loc, slots,
                   helpers, requests, events, reported, heartbeat, fatal>>

\* ConsumeWithContext: the read of c.helpers under the read lock.
ConsumeWithContextLocked(t) == ReadHelpers(t, "cwc_rlock", "cwc_call")

\* ConsumeWithContext after the read lock, with the bundle it read: an error
\* when there is no bundle or no QuotaConsumer in it, otherwise
\* amount := helpers.QuotaConsumer(ctx, args...) and the call of c.Consume(amount).
ConsumeWithContextCall(t) ==
    LET h == loc[t].helpers IN
    /\ ~fatal
    /\ pc[t] = "cwc_call"
    /\ IF h = None \/ h.QuotaConsumer = "nil"
       THEN /\ Return(t, Result(t, FALSE, 0, "QuotaConsumer helper not registered"))
       ELSE /\ op' = [op EXCEPT ![t].arg = QuotaConsumer(h, op[t].arg)]
            /\ pc' = [pc EXCEPT ![t] = "c_record"]
            /\ UNCHANGED <<loc, ret>>
    /\ UNCHANGED <<now, config, cache, mu, ledger, license, slots,
                   helpers, requests, events, reported, heartbeat, fatal, calls>>

\* The Consume that ConsumeWithContext calls starts by recording the request
\* in the rate tracker, at the time it is now.
ConsumeRecord(t) ==
    LET c == Client(t) IN
    /\ ~fatal
    /\ pc[t] = "c_record"
    /\ requests' = [requests EXCEPT ![c] = RecordRequest(@, now)]
    /\ events' = [events EXCEPT ![c] = Append(@, now)]
    /\ pc' = [pc EXCEPT ![t] = "cf_get"]
    /\ UNCHANGED <<now, config, cache, mu, ledger, license, op, loc, ret, slots,
                   helpers, reported, heartbeat, fatal, calls>>

\* A call of CheckCapacityWithHelper(): its first statement is c.mu.RLock().
\* u is what the application's CapacityCounter returns when it is called.
CheckCapacityWithHelper(t, c, u) ==
    /\ CanCall(t, c)
    /\ op' = [op EXCEPT ![t] = [name |-> "CheckCapacityWithHelper", client |-> c, arg |-> u]]
    /\ pc' = [pc EXCEPT ![t] = "cch_rlock"]
    /\ ret' = [ret EXCEPT ![t] = NoRet]
    /\ calls' = calls + 1
    /\ UNCHANGED <<now, config, cache, mu, ledger, license, loc, slots,
                   helpers, requests, events, reported, heartbeat, fatal>>

\* CheckCapacityWithHelper: the read of c.helpers under the read lock.
CheckCapacityWithHelperLocked(t) == ReadHelpers(t, "cch_rlock", "cch_call")

\* CheckCapacityWithHelperCall going on with a current usage of 0 when the
\* bundle has no CapacityCounter.
CheckCapacityWithHelperCallZero(t) ==
    LET h == loc[t].helpers IN
    /\ ~fatal
    /\ pc[t] = "cch_call"
    /\ pc' = [pc EXCEPT ![t] = "cf_get"]
    /\ op' = IF h = None \/ h.CapacityCounter = "nil"
             THEN [op EXCEPT ![t].arg = 0] ELSE op
    /\ UNCHANGED <<now, config, cache, mu, ledger, license, loc, ret, slots,
                   helpers, requests, events, reported, heartbeat, fatal, calls>>

\* CheckCapacityWithHelper after the read lock, with the bundle it read: an
\* error when there is no bundle or no CapacityCounter in it, otherwise
\* currentUsed := helpers.CapacityCounter() and the call of
\* c.CheckCapacity(currentUsed), which starts with checkProductLimits().
CheckCapacityWithHelperCall(t) ==
    LET h == loc[t].helpers IN
    /\ ~fatal
    /\ pc[t] = "cch_call"
    /\ IF h = None \/ h.CapacityCounter = "nil"
       THEN /\ Return(t, Result(t, FALSE, 0, "CapacityCounter helper not registered"))
       ELSE /\ pc' = [pc EXCEPT ![t] = "cf_get"]
            /\ UNCHANGED <<op, loc, ret>>
    /\ UNCHANGED <<now, config, cache, mu, ledger, license, slots,
                   helpers, requests, events, reported, heartbeat, fatal, calls>>

\* The clock of the helper/rate scenario advances by one tick (half a second).
RateTick ==
    /\ ~fatal
    /\ now < MaxRateTime
    /\ now' = now + 1
    /\ UNCHANGED <<config, cache, mu, ledger, license, threadv, slots, helpers,
                   requests, events, reported, heartbeat, fatal, calls>>

\* ------------------------------------------------- the deprecated variants
\* What a deprecated feature-scoped call returns: (allowed, value, reason, err).
DeprecatedResult(t, admitted, value, reason, err) ==
    [name |-> op[t].name, client |-> Client(t), admitted |-> admitted,
     value |-> value, reason |-> reason, err |-> err]

\* A call of ConsumeDeprecated(featureID, amount, meta): CheckFeature(featureID) first.
ConsumeDeprecated(t, c, featureID, amount) ==
    /\ CanCall(t, c)
    /\ op' = [op EXCEPT ![t] = [name |-> "ConsumeDeprecated", client |-> c, arg |-> amount]]
    /\ Lookup(t, c, featureID)
    /\ ret' = [ret EXCEPT ![t] = NoRet]
    /\ calls' = calls + 1
    /\ UNCHANGED <<now, config, cache, mu, ledger, license, slots,
                   helpers, requests, events, reported, heartbeat, fatal>>

\* ConsumeDeprecated after the feature check: an error ends the call with
\* "check_error"; a status that is not enabled ends it with status.Reason as the
\* reason and a nil error; otherwise ReportUsage(featureID, amount) signs and
\* sends the usage report and the thread waits for the answer.
ConsumeDeprecatedCheck(t) ==
    /\ ~fatal
    /\ pc[t] = "cf_done"
    /\ op[t].name = "ConsumeDeprecated"
    /\ IF loc[t].err # ""
       THEN /\ Return(t, DeprecatedResult(t, FALSE, 0, "check_error", loc[t].err))
            /\ UNCHANGED <<reported, fatal>>
       ELSE IF ~loc[t].status.enabled
       THEN /\ Return(t, DeprecatedResult(t, FALSE,
                            IF loc[t].status.quota >= 0 THEN loc[t].status.quota ELSE 0,
                            loc[t].status.reason, ""))
            /\ UNCHANGED <<reported, fatal>>
       ELSE \E e \in RequestErrors(Client(t)) :
               IF e = SignPanic
               THEN /\ Panic(t, op[t].name, Client(t))
                    /\ UNCHANGED reported
               ELSE IF e # ""
               THEN /\ Return(t, DeprecatedResult(t, FALSE, 0, "usage_error", e))
                    /\ UNCHANGED <<reported, fatal>>
               ELSE /\ pc' = [pc EXCEPT ![t] = "dru_wait"]
                    /\ reported' = Append(reported, op[t].arg)
                    /\ loc' = [loc EXCEPT ![t] = [@ EXCEPT !.reports = @ + 1]]
                    /\ UNCHANGED <<op, ret, fatal>>
    /\ UNCHANGED <<now, config, cache, mu, ledger, license, slots,
                   helpers, requests, events, heartbeat, calls>>

\* ConsumeDeprecated: the authority acknowledges the usage report (the call
\* returns true, max(0, remaining - amount) or 0 without a quota block, "ok")
\* or the request fails ("usage_error").
ConsumeDeprecatedReply(t) ==
    /\ ~fatal
    /\ pc[t] = "dru_wait"
    /\ \/ Return(t, DeprecatedResult(t, TRUE,
                       IF loc[t].status.quota >= 0
                       THEN Max(0, loc[t].status.quota - op[t].arg) ELSE 0,
                       "ok", ""))
       \/ Return(t, DeprecatedResult(t, FALSE, 0, "usage_error", "usage report failed"))
    /\ UNCHANGED <<now, config, cache, mu, ledger, license, slots,
                   helpers, requests, events, reported, heartbeat, fatal, calls>>

\* A call of CheckCapacityDeprecated(featureID, currentUsed): CheckFeature(featureID) first.
CheckCapacityDeprecated(t, c, featureID, currentUsed) ==
    /\ CanCall(t, c)
    /\ op' = [op EXCEPT ![t] = [name |-> "CheckCapacityDeprecated", client |-> c,
                                arg |-> currentUsed]]
    /\ Lookup(t, c, featureID)
    /\ ret' = [ret EXCEPT ![t] = NoRet]
    /\ calls' = calls + 1
    /\ UNCHANGED <<now, config, cache, mu, ledger, license, slots,
                   helpers, requests, events, reported, heartbeat, fatal>>

\* CheckCapacityDeprecated after the feature check: "no_capacity_limit" when
\* max <= 0, "capacity_exceeded" when currentUsed > max, else "ok".
CheckCapacityDeprecatedCheck(t) ==
    /\ ~fatal
    /\ pc[t] = "cf_done"
    /\ op[t].name = "CheckCapacityDeprecated"
    /\ LET max == loc[t].status.maxCapacity IN
       IF loc[t].err # ""
       THEN Return(t, DeprecatedResult(t, FALSE, 0, "check_error", loc[t].err))
       ELSE IF max <= 0
       THEN Return(t, DeprecatedResult(t, FALSE, 0, "no_capacity_limit", ""))
       ELSE IF op[t].arg > max
       THEN Return(t, DeprecatedResult(t, FALSE, max, "capacity_exceeded", ""))
       ELSE Return(t, DeprecatedResult(t, TRUE, max, "ok", ""))
    /\ UNCHANGED <<now, config, cache, mu, ledger, license, slots,
                   helpers, requests, events, reported, heartbeat, fatal, calls>>

\* A call of CheckTPSDeprecated(featureID, currentTPS): CheckFeature(featureID) first.
CheckTPSDeprecated(t, c, featureID, currentTPS) ==
    /\ CanCall(t, c)
    /\ op' = [op EXCEPT ![t] = [name |-> "CheckTPSDeprecated", client |-> c,
                                arg |-> currentTPS]]
    /\ Lookup(t, c, featureID)
    /\ ret' = [ret EXCEPT ![t] = NoRet]
    /\ calls' = calls + 1
    /\ UNCHANGED <<now, config, cache, mu, ledger, license, slots,
                   helpers, requests, events, reported, heartbeat, fatal>>

\* CheckTPSDeprecated after the feature check: "no_tps_limit" when max <= 0,
\* "tps_exceeded" when currentTPS > max, else "ok".
CheckTPSDeprecatedCheck(t) ==
    /\ ~fatal
    /\ pc[t] = "cf_done"
    /\ op[t].name = "CheckTPSDeprecated"
    /\ LET max == loc[t].status.maxTPS IN
       IF loc[t].err # ""
       THEN Return(t, DeprecatedResult(t, FALSE, 0, "check_error", loc[t].err))
       ELSE IF max <= 0
       THEN Return(t, DeprecatedResult(t, FALSE, 0, "no_tps_limit", ""))
       ELSE IF op[t].arg > max
       THEN Return(t, DeprecatedResult(t, FALSE, max, "tps_exceeded", ""))
       ELSE Return(t, DeprecatedResult(t, TRUE, max, "ok", ""))
    /\ UNCHANGED <<now, config, cache, mu, ledger, license, slots,
                   helpers, requests, events, reported, heartbeat, fatal, calls>>

\* ------------------------------------------------- manifest validation
\* config.ValidationError{Field, Message}; a nil error is None.  A message
\* that wraps another error (err.Error()) is that error.
ValidationError(field, message) == [field |-> field, message |-> message]

\* InterceptConfig.Validate: package is required, and function or pattern.
InterceptConfigValidate(i) ==
    IF i.package = "" THEN ValidationError("package", "required")
    ELSE IF i.function = "" /\ i.pattern = ""
    THEN ValidationError("function", "either function or pattern is required")
    ELSE None

\* QuotaConfig.Validate: a positive limit and one of the valid periods.
QuotaConfigValidate(q) ==
    IF q.limit <= 0 THEN ValidationError("limit", "must be positive")
    ELSE IF q.period \notin {"daily", "hourly", "monthly", "minute"}
    THEN ValidationError("period", "must be one of: daily, hourly, monthly, minute")
    ELSE None

\* OnDenyConfig.Validate: one of the valid actions.
OnDenyConfigValidate(o) ==
    IF o.action \notin {"fallback", "error", "warn", "filter"}
    THEN ValidationError("action", "must be one of: fallback, error, warn, filter")
    ELSE None

\* FeatureConfig.Validate: id and name are required; the intercept block is
\* validated, and the fallback, quota and on_deny blocks when present.
FeatureConfigValidate(f) ==
    IF f.id = "" THEN ValidationError("id", "required")
    ELSE IF f.name = "" THEN ValidationError("name", "required")
    ELSE IF InterceptConfigValidate(f.intercept) # None
    THEN ValidationError("intercept", InterceptConfigValidate(f.intercept))
    ELSE IF f.fallback # None /\ InterceptConfigValidate(f.fallback) # None
    THEN ValidationError("fallback", InterceptConfigValidate(f.fallback))
    ELSE IF f.quota # None /\ QuotaConfigValidate(f.quota) # None
    THEN ValidationError("quota", QuotaConfigValidate(f.quota))
    ELSE IF f.on_deny # None /\ OnDenyConfigValidate(f.on_deny) # None
    THEN ValidationError("on_deny", OnDenyConfigValidate(f.on_deny))
    ELSE None

\* SDKConfig.Validate, the checks: lcc_url, product_id and product_version
\* are required.
SDKConfigValidate(c) ==
    IF c.lcc_url = "" THEN ValidationError("sdk.lcc_url", "required")
    ELSE IF c.product_id = "" THEN ValidationError("sdk.product_id", "required")
    ELSE IF c.product_version = "" THEN ValidationError("sdk.product_version", "required")
    ELSE None

\* SDKConfig.Validate, the defaults it sets once the checks have passed
\* (durations in seconds): 30 s, 10 s, 5 s and 3 retries for zero fields.
SDKConfigDefaults(c) ==
    [c EXCEPT !.check_interval = IF @ = 0 THEN 30 ELSE @,
              !.cache_ttl = IF @ = 0 THEN 10 ELSE @,
              !.timeout = IF @ = 0 THEN 5 ELSE @,
              !.max_retries = IF @ = 0 THEN 3 ELSE @]

\* Manifest.Validate without the check for duplicate feature IDs.
ManifestValidateNoDuplicates(m) ==
    LET fs == m.features
        failing == {i \in 1..Len(fs) : FeatureConfigValidate(fs[i]) # None}
    IN IF SDKConfigValidate(m.sdk) # None THEN SDKConfigValidate(m.sdk)
       ELSE IF failing = {} THEN None
       ELSE LET i == CHOOSE k \in failing : \A j \in failing : k <= j
            IN ValidationError(<<"features", i - 1>>, FeatureConfigValidate(fs[i]))

\* Manifest.Validate: the SDK block, then the features in order; the loop
\* returns at the first feature (index i, counted from 0) that is invalid or
\* whose ID an earlier feature has.
ManifestValidate(m) ==
    LET fs == m.features
        duplicate(i) == \E j \in 1..(i - 1) : fs[j].id = fs[i].id
        failing == {i \in 1..Len(fs) : FeatureConfigValidate(fs[i]) # None \/ duplicate(i)}
    IN IF SDKConfigValidate(m.sdk) # None THEN SDKConfigValidate(m.sdk)
       ELSE IF failing = {} THEN None
       ELSE LET i == CHOOSE k \in failing : \A j \in failing : k <= j
            IN IF FeatureConfigValidate(fs[i]) # None
               THEN ValidationError(<<"features", i - 1>>, FeatureConfigValidate(fs[i]))
               ELSE ValidationError(<<"features", i - 1, "id">>,
                                    <<"duplicate feature ID: ", fs[i].id>>)

\* The manifest as Validate leaves it: the SDK defaults are set when the SDK
\* block passed its checks.
ManifestValidated(m) ==
    IF SDKConfigValidate(m.sdk) # None THEN m
    ELSE [m EXCEPT !.sdk = SDKConfigDefaults(@)]

\* The manifests validated: an SDK block with all required fields or with one
\* of them missing, and up to MaxFeatures features, each a valid feature or a
\* feature with one thing wrong or one optional block added.
SDKConfigs ==
    {[lcc_url |-> u, product_id |-> p, product_version |-> v,
      check_interval |-> 0, cache_ttl |-> 0, timeout |-> 0, max_retries |-> 0] :
        <<u, p, v>> \in {<<"http://localhost:7086", "test-app", "1.0.0">>,
                         <<"", "test-app", "1.0.0">>,
                         <<"http://localhost:7086", "", "1.0.0">>,
                         <<"http://localhost:7086", "test-app", "">>}}

ValidFeature(id) ==
    [id |-> id, name |-> "Feature", fallback |-> None, quota |-> None, on_deny |-> None,
     intercept |-> [package |-> "test", function |-> "Func1", pattern |-> ""]]

FeatureConfigs ==
    UNION {{ValidFeature(id),
            [ValidFeature(id) EXCEPT !.name = ""],
            [ValidFeature(id) EXCEPT !.intercept.package = ""],
            [ValidFeature(id) EXCEPT !.intercept.function = ""],
            [ValidFeature(id) EXCEPT !.intercept.function = "", !.intercept.pattern = "Func*"],
            [ValidFeature(id) EXCEPT !.fallback = [package |-> "", function |-> "F", pattern |-> ""]],
            [ValidFeature(id) EXCEPT !.quota = [limit |-> 1, period |-> "daily"]],
            [ValidFeature(id) EXCEPT !.quota = [limit |-> 0, period |-> "daily"]],
            [ValidFeature(id) EXCEPT !.quota = [limit |-> 1, period |-> "weekly"]],
            [ValidFeature(id) EXCEPT !.on_deny = [action |-> "ignore"]]} :
                id \in {"", "feature1", "feature2"}}

Manifests ==
    {[sdk |-> c, features |-> fs] :
        c \in SDKConfigs,
        fs \in UNION {[1..n -> FeatureConfigs] : n \in 0..MaxFeatures}}

\* config.ValidateManifest(manifest) returns manifest.Validate().
ValidateManifest(t) ==
    /\ ~fatal
    /\ pc[t] = "vm_call"
    /\ Return(t, [name |-> "ValidateManifest", manifest |-> op[t].arg,
                  validated |-> ManifestValidated(op[t].arg),
                  err |-> ManifestValidate(op[t].arg)])
    /\ UNCHANGED <<now, config, cache, mu, ledger, license, slots,
                   helpers, requests, events, reported, heartbeat, fatal, calls>>

\* ------------------------------------------------------------- initial state
\* The state after construction: NewClientWithKeyPair(cfg, kp) for each client
\* (empty cache, unlocked mutex, no helpers, an empty rate window, no heartbeat)
\* and the package-level ledger empty.
NoHeartbeat == [running |-> FALSE, cancel |-> 0, ctxs |-> 0, loops |-> 0, cancelled |-> 0]

Constructed ==
    /\ now = 0
    /\ cache = [c \in Clients |-> featureCache_clear]
    /\ mu = [c \in Clients |-> NoThread]
    /\ ledger = [k \in {} |-> 0]
    /\ pc = [t \in Threads |-> "idle"]
    /\ op = [t \in Threads |-> NoOp]
    /\ loc = [t \in Threads |-> NoLocals]
    /\ ret = [t \in Threads |-> NoRet]
    /\ slots = << >>
    /\ helpers = [c \in Clients |-> None]
    /\ requests = [c \in Clients |-> << >>]
    /\ events = [c \in Clients |-> << >>]
    /\ reported = << >>
    /\ heartbeat = [c \in Clients |-> NoHeartbeat]
    /\ fatal = FALSE
    /\ calls = 0

\* The first client has its own key pair; a second one is built from the same
\* key pair or from another one.  instanceID is the key pair's fingerprint.
Identities(cs) ==
    /\ clients = cs
    /\ \E kp \in KeyPairs : signerKey = [c \in Clients |-> IF c = "c1" THEN "kpA" ELSE kp]
    /\ keyPair = signerKey
    /\ destroyed = {}
    /\ instanceID = [c \in Clients |-> GetFingerprint(signerKey[c])]

Init ==
    /\ Constructed
    /\ \E cs \in {{"c1"}, Clients} : Identities(cs)
    /\ baseURL \in [Clients -> URLs]
    /\ \E d \in 0..MaxTTL : ttl = [c \in Clients |-> d]
    /\ \E e \in BOOLEAN, q \in Quotas, cap \in {0, 2}, tps \in {0, 1}, m \in 0..MaxConc :
         license = Status(e, IF e THEN "" ELSE "quota_exceeded", q, cap, tps, m)

\* ------------------------------------------------- the cache scenario
\* One client, two threads calling CheckFeature and ClearCache while the clock
\* runs and the authority's license changes.
InitCache ==
    /\ Constructed
    /\ Identities({"c1"})
    /\ baseURL = [c \in Clients |-> GoodURL]
    /\ signerKey["c2"] = "kpB"
    /\ \E d \in 0..MaxTTL : ttl = [c \in Clients |-> d]
    /\ license = Status(TRUE, "", 3, 0, 0, 0)

NextCache ==
    \/ Tick
    \/ LicenseChange
    \/ \E t \in Threads, c \in Clients, k \in CheckKeys : CheckFeature(t, c, k)
    \/ \E t \in Threads : queryFeature(t)
    \/ \E t \in Threads : QueryReply(t)
    \/ \E t \in Threads : CacheSet(t)
    \/ \E t \in Threads : CheckFeatureReturn(t)
    \/ \E t \in Threads, c \in Clients : ClearCache(t, c)

SpecCache == InitCache /\ [][NextCache]_vars

\* ------------------------------------------------- the ledger scenarios
\* Two threads acquire and release slots, within one clock tick, while the
\* license (with a concurrency limit of at least 1) stays as it is.
InitLedger ==
    /\ Constructed
    /\ Identities(Clients)
    /\ baseURL = [c \in Clients |-> GoodURL]
    /\ ttl = [c \in Clients |-> MaxTTL]
    /\ \E m \in 1..MaxConc : license = Status(TRUE, "", 3, 0, 0, m)

NextLedgerOps ==
    \/ \E t \in Threads, c \in Clients : AcquireSlot(t, c)
    \/ \E t \in Threads, c \in Clients : AcquireSlotDeprecated(t, c, ProductKey)
    \/ \E t \in Threads : queryFeature(t)
    \/ \E t \in Threads : QueryReply(t)
    \/ \E t \in Threads : CacheSet(t)
    \/ \E t \in Threads : AcquireSlotLimit(t)
    \/ \E t \in Threads : Lock(t)
    \/ \E t \in Threads : AcquireSlotRead(t)
    \/ \E t \in Threads : AcquireSlotWrite(t)
    \/ \E t \in Threads, i \in 1..MaxCalls : Release(t, i)
    \/ \E t \in Threads : ReleaseRead(t)
    \/ \E t \in Threads : ReleaseWrite(t)

NextLedger == NextLedgerOps \/ MapFault

\* Two client instances in one process.
SpecLedger == InitLedger /\ [][NextLedger]_vars

\* One client instance.
InitLedgerOne ==
    /\ Constructed
    /\ Identities({"c1"})
    /\ baseURL = [c \in Clients |-> GoodURL]
    /\ signerKey["c2"] = "kpB"
    /\ ttl = [c \in Clients |-> MaxTTL]
    /\ \E m \in 1..MaxConc : license = Status(TRUE, "", 3, 0, 0, m)

SpecLedgerOne == InitLedgerOne /\ [][NextLedgerOps]_vars

\* ------------------------------------------------- the registration scenario
InitRegister ==
    /\ Constructed
    /\ Identities(Clients)
    /\ \E u \in URLs : baseURL = [c \in Clients |-> IF c = "c1" THEN u ELSE GoodURL]
    /\ ttl = [c \in Clients |-> MaxTTL]
    /\ license = Status(TRUE, "", 3, 0, 0, 1)

NextRegister ==
    \/ \E t \in Threads, c \in Clients : Register(t, c)
    \/ \E t \in Threads : RegisterSign(t)
    \/ \E t \in Threads : RegisterReply(t)
    \/ \E t \in Threads : Lock(t)
    \/ \E t \in Threads, c \in Clients : Close(t, c)
    \/ \E t \in Threads : CloseDestroy(t)
    \/ \E t \in Threads, kp \in KeyPairs : Destroy(t, kp)
    \/ \E t \in Threads : DestroyWipe(t)
    \/ \E t \in Threads, c \in Clients, h \in Bundles : RegisterHelpers(t, c, h)

SpecRegister == InitRegister /\ [][NextRegister]_vars

\* ------------------------------------------------- the admission scenario
\* One client, one application thread calling the four product-level primitives against a
\* license that is enabled or not and has each limit set or unset.
AppThreads == {"t1"}

InitAdmit ==
    /\ Constructed
    /\ Identities({"c1"})
    /\ baseURL = [c \in Clients |-> GoodURL]
    /\ signerKey["c2"] = "kpB"
    /\ ttl = [c \in Clients |-> MaxTTL]
    /\ \E e \in BOOLEAN, q \in Quotas, cap \in {0, 2}, tps \in {0, 1}, m \in {0, 1} :
         license = Status(e, IF e THEN "" ELSE "quota_exceeded", q, cap, tps, m)

NextAdmit ==
    \/ \E t \in AppThreads, c \in Clients, a \in 1..MaxAmount : Consume(t, c, a)
    \/ \E t \in AppThreads, c \in Clients, u \in 0..2 : CheckCapacity(t, c, u)
    \/ \E t \in AppThreads, c \in Clients, r \in Rates : CheckTPS(t, c, r)
    \/ \E t \in AppThreads, c \in Clients : AcquireSlot(t, c)
    \/ \E t \in AppThreads : getCurrentTPS(t)
    \/ \E t \in AppThreads : getCurrentTPSRate(t)
    \/ \E t \in AppThreads : CheckProductLimits(t)
    \/ \E t \in AppThreads : queryFeature(t)
    \/ \E t \in AppThreads : QueryReply(t)
    \/ \E t \in AppThreads : CacheSet(t)
    \/ \E t \in AppThreads : ConsumeCheck(t)
    \/ \E t \in AppThreads : UsageReply(t)
    \/ \E t \in AppThreads : CheckCapacityCheck(t)
    \/ \E t \in AppThreads : CheckTPSCheck(t)
    \/ \E t \in AppThreads : AcquireSlotLimit(t)
    \/ \E t \in AppThreads : Lock(t)
    \/ \E t \in AppThreads : AcquireSlotRead(t)
    \/ \E t \in AppThreads : AcquireSlotWrite(t)

SpecAdmit == InitAdmit /\ [][NextAdmit]_vars

\* ------------------------------------------------- the helper scenario
\* One client, one application thread: it registers helper bundles (valid or
\* not) and calls ConsumeWithContext and CheckCapacityWithHelper.
InitHelpers ==
    /\ Constructed
    /\ Identities({"c1"})
    /\ baseURL = [c \in Clients |-> GoodURL]
    /\ signerKey["c2"] = "kpB"
    /\ ttl = [c \in Clients |-> MaxTTL]
    /\ \E e \in BOOLEAN, cap \in {0, 2} :
         license = Status(e, IF e THEN "" ELSE "quota_exceeded", 3, cap, 0, 0)

NextHelpers ==
    \/ \E t \in AppThreads, c \in Clients, h \in Bundles : RegisterHelpers(t, c, h)
    \/ \E t \in AppThreads, c \in Clients, a \in 1..MaxAmount : ConsumeWithContext(t, c, a)
    \/ \E t \in AppThreads, c \in Clients, u \in 0..2 : CheckCapacityWithHelper(t, c, u)
    \/ \E t \in AppThreads : Lock(t)
    \/ \E t \in AppThreads : ConsumeWithContextLocked(t)
    \/ \E t \in AppThreads : ConsumeWithContextCall(t)
    \/ \E t \in AppThreads : ConsumeRecord(t)
    \/ \E t \in AppThreads : CheckCapacityWithHelperLocked(t)
    \/ \E t \in AppThreads : CheckCapacityWithHelperCall(t)
    \/ \E t \in AppThreads : CheckProductLimits(t)
    \/ \E t \in AppThreads : queryFeature(t)
    \/ \E t \in AppThreads : QueryReply(t)
    \/ \E t \in AppThreads : CacheSet(t)
    \/ \E t \in AppThreads : ConsumeCheck(t)
    \/ \E t \in AppThreads : UsageReply(t)
    \/ \E t \in AppThreads : CheckCapacityCheck(t)

SpecHelpers == InitHelpers /\ [][NextHelpers]_vars

\* ------------------------------------------------- the rate scenario
\* One client, one application thread: it calls Consume and CheckTPS while the
\* clock runs past the rate window, before and after registering a bundle with
\* or without a TPSProvider; the license has a TPS limit or none.
RateBundles ==
    {h \in Bundles \ {None} : h.CapacityCounter = "app" /\ h.QuotaConsumer = "nil"}

InitRate ==
    /\ Constructed
    /\ Identities({"c1"})
    /\ baseURL = [c \in Clients |-> GoodURL]
    /\ signerKey["c2"] = "kpB"
    /\ ttl = [c \in Clients |-> MaxTTL]
    /\ \E en \in BOOLEAN, tps \in {0, 1} : license = Status(en, "", 3, 0, tps, 0)

NextRate ==
    \/ RateTick
    \/ \E t \in AppThreads, c \in Clients, h \in RateBundles : RegisterHelpers(t, c, h)
    \/ \E t \in AppThreads, c \in Clients, a \in 1..MaxAmount : Consume(t, c, a)
    \/ \E t \in AppThreads, c \in Clients, r \in Rates : CheckTPS(t, c, r)
    \/ \E t \in AppThreads : Lock(t)
    \/ \E t \in AppThreads : getCurrentTPS(t)
    \/ \E t \in AppThreads : getCurrentTPSRate(t)
    \/ \E t \in AppThreads : CheckProductLimits(t)
    \/ \E t \in AppThreads : queryFeature(t)
    \/ \E t \in AppThreads : QueryReply(t)
    \/ \E t \in AppThreads : CacheSet(t)
    \/ \E t \in AppThreads : ConsumeCheck(t)
    \/ \E t \in AppThreads : UsageReply(t)
    \/ \E t \in AppThreads : CheckTPSCheck(t)

SpecRate == InitRate /\ [][NextRate]_vars

\* ------------------------------------------------- the deprecated scenario
\* One client, one application thread calling the product-level primitives and
\* their deprecated feature-scoped variants against one license; a license that
\* is not enabled comes with a reason or with none (the response's reason field
\* empty or missing).
InitDeprecated ==
    /\ Constructed
    /\ Identities({"c1"})
    /\ baseURL = [c \in Clients |-> GoodURL]
    /\ signerKey["c2"] = "kpB"
    /\ ttl = [c \in Clients |-> MaxTTL]
    /\ \E e \in BOOLEAN, r \in {"", "quota_exceeded"}, cap \in {0, 2}, tps \in {0, 1}, m \in {0, 1} :
         /\ e => r = ""
         /\ license = Status(e, r, 3, cap, tps, m)

NextDeprecated ==
    \/ \E t \in AppThreads, c \in Clients, a \in 1..MaxAmount : Consume(t, c, a)
    \/ \E t \in AppThreads, c \in Clients, u \in 0..2 : CheckCapacity(t, c, u)
    \/ \E t \in AppThreads, c \in Clients, r \in Rates : CheckTPS(t, c, r)
    \/ \E t \in AppThreads, c \in Clients : AcquireSlot(t, c)
    \/ \E t \in AppThreads, c \in Clients, a \in 1..MaxAmount :
         ConsumeDeprecated(t, c, FeatureKey, a)
    \/ \E t \in AppThreads, c \in Clients, u \in 0..2 :
         CheckCapacityDeprecated(t, c, FeatureKey, u)
    \/ \E t \in AppThreads, c \in Clients, r \in Rates :
         CheckTPSDeprecated(t, c, FeatureKey, r)
    \/ \E t \in AppThreads, c \in Clients : AcquireSlotDeprecated(t, c, FeatureKey)
    \/ \E t \in AppThreads : getCurrentTPS(t)
    \/ \E t \in AppThreads : getCurrentTPSRate(t)
    \/ \E t \in AppThreads : CheckProductLimits(t)
    \/ \E t \in AppThreads : queryFeature(t)
    \/ \E t \in AppThreads : QueryReply(t)
    \/ \E t \in AppThreads : CacheSet(t)
    \/ \E t \in AppThreads : ConsumeCheck(t)
    \/ \E t \in AppThreads : UsageReply(t)
    \/ \E t \in AppThreads : ConsumeDeprecatedCheck(t)
    \/ \E t \in AppThreads : ConsumeDeprecatedReply(t)
    \/ \E t \in AppThreads : CheckCapacityCheck(t)
    \/ \E t \in AppThreads : CheckCapacityDeprecatedCheck(t)
    \/ \E t \in AppThreads : CheckTPSCheck(t)
    \/ \E t \in AppThreads : CheckTPSDeprecatedCheck(t)
    \/ \E t \in AppThreads : AcquireSlotLimit(t)
    \/ \E t \in AppThreads : Lock(t)
    \/ \E t \in AppThreads : AcquireSlotRead(t)
    \/ \E t \in AppThreads : AcquireSlotWrite(t)

SpecDeprecated == InitDeprecated /\ [][NextDeprecated]_vars

\* ------------------------------------------------- the shutdown scenario
\* One client, one application thread: it consumes quota and acquires slots
\* (which fills the cache, the rate window and the ledger), reports usage
\* itself and closes the client, in any order.
InitClose ==
    /\ Constructed
    /\ Identities({"c1"})
    /\ baseURL = [c \in Clients |-> GoodURL]
    /\ signerKey["c2"] = "kpB"
    /\ ttl = [c \in Clients |-> MaxTTL]
    /\ \E m \in {0, 1} : license = Status(TRUE, "", 3, 0, 0, m)

NextClose ==
    \/ \E t \in AppThreads, c \in Clients, a \in 1..MaxAmount : Consume(t, c, a)
    \/ \E t \in AppThreads, c \in Clients : AcquireSlot(t, c)
    \/ \E t \in AppThreads, c \in Clients : Close(t, c)
    \/ \E t \in AppThreads : CloseDestroy(t)
    \/ \E t \in AppThreads, kp \in KeyPairs : Destroy(t, kp)
    \/ \E t \in AppThreads : DestroyWipe(t)
    \/ \E t \in AppThreads, c \in Clients, h \in 0..(2 * MaxAmount) :
         ReportUsage(t, c, FeatureKey, h)
    \/ \E t \in AppThreads : ReportUsageReply(t)
    \/ \E t \in AppThreads : CheckProductLimits(t)
    \/ \E t \in AppThreads : queryFeature(t)
    \/ \E t \in AppThreads : QueryReply(t)
    \/ \E t \in AppThreads : CacheSet(t)
    \/ \E t \in AppThreads : ConsumeCheck(t)
    \/ \E t \in AppThreads : UsageReply(t)
    \/ \E t \in AppThreads : AcquireSlotLimit(t)
    \/ \E t \in AppThreads : Lock(t)
    \/ \E t \in AppThreads : AcquireSlotRead(t)
    \/ \E t \in AppThreads : AcquireSlotWrite(t)

SpecClose == InitClose /\ [][NextClose]_vars

\* ------------------------------------------------- the denial scenario
\* One client, one application thread: it acquires slots against a license
\* with a concurrency limit of 1 or none, the authority answering or not, and
\* invokes the release functions it was given, of admitted and of denied calls.
InitDenied ==
    /\ Constructed
    /\ Identities({"c1"})
    /\ baseURL = [c \in Clients |-> GoodURL]
    /\ signerKey["c2"] = "kpB"
    /\ ttl = [c \in Clients |-> MaxTTL]
    /\ \E m \in {0, 1} : license = Status(TRUE, "", 3, 0, 0, m)

NextDenied ==
    \/ \E t \in AppThreads, c \in Clients : AcquireSlot(t, c)
    \/ \E t \in AppThreads, c \in Clients : AcquireSlotDeprecated(t, c, ProductKey)
    \/ \E t \in AppThreads : queryFeature(t)
    \/ \E t \in AppThreads : QueryReply(t)
    \/ \E t \in AppThreads : CacheSet(t)
    \/ \E t \in AppThreads : AcquireSlotLimit(t)
    \/ \E t \in AppThreads : Lock(t)
    \/ \E t \in AppThreads : AcquireSlotRead(t)
    \/ \E t \in AppThreads : AcquireSlotWrite(t)
    \/ \E t \in AppThreads, i \in 1..MaxCalls : Release(t, i)
    \/ \E t \in AppThreads : ReleaseRead(t)
    \/ \E t \in AppThreads : ReleaseWrite(t)
    \/ \E t \in AppThreads : ReleaseDenied(t)

SpecDenied == InitDenied /\ [][NextDenied]_vars

\* ------------------------------------------------- the manifest scenario
\* An application thread has called ValidateManifest with one of the manifests.
InitManifest ==
    /\ now = 0
    /\ Identities({"c1"})
    /\ baseURL = [c \in Clients |-> GoodURL]
    /\ signerKey["c2"] = "kpB"
    /\ ttl = [c \in Clients |-> MaxTTL]
    /\ license = Status(TRUE, "", 3, 0, 0, 0)
    /\ cache = [c \in Clients |-> featureCache_clear]
    /\ mu = [c \in Clients |-> NoThread]
    /\ ledger = [k \in {} |-> 0]
    /\ \E m \in Manifests :
         op = [t \in Threads |-> IF t \in AppThreads
                                 THEN [name |-> "ValidateManifest", client |-> "c1", arg |-> m]
                                 ELSE NoOp]
    /\ pc = [t \in Threads |-> IF t \in AppThreads THEN "vm_call" ELSE "idle"]
    /\ loc = [t \in Threads |-> NoLocals]
    /\ ret = [t \in Threads |-> NoRet]
    /\ slots = << >>
    /\ helpers = [c \in Clients |-> None]
    /\ requests = [c \in Clients |-> << >>]
    /\ events = [c \in Clients |-> << >>]
    /\ reported = << >>
    /\ heartbeat = [c \in Clients |-> NoHeartbeat]
    /\ fatal = FALSE
    /\ calls = 1

NextManifest == \E t \in AppThreads : ValidateManifest(t)

SpecManifest == InitManifest /\ [][NextManifest]_vars

\* ------------------------------------------------- the whole client
Next ==
    \/ Tick
    \/ LicenseChange
    \/ MapFault
    \/ \E t \in Threads, c \in Clients, k \in CheckKeys : CheckFeature(t, c, k)
    \/ \E t \in Threads, c \in Clients : ClearCache(t, c)
    \/ \E t \in Threads, c \in Clients, a \in 1..MaxAmount : Consume(t, c, a)
    \/ \E t \in Threads, c \in Clients, a \in 1..MaxAmount : ConsumeWithContext(t, c, a)
    \/ \E t \in Threads, c \in Clients, u \in 0..2 : CheckCapacity(t, c, u)
    \/ \E t \in Threads, c \in Clients, u \in 0..2 : CheckCapacityWithHelper(t, c, u)
    \/ \E t \in Threads, c \in Clients, r \in Rates : CheckTPS(t, c, r)
    \/ \E t \in Threads, c \in Clients : AcquireSlot(t, c)
    \/ \E t \in Threads, c \in Clients, k \in CheckKeys : AcquireSlotDeprecated(t, c, k)
    \/ \E t \in Threads, i \in 1..MaxCalls : Release(t, i)
    \/ \E t \in Threads, c \in Clients : Register(t, c)
    \/ \E t \in Threads, c \in Clients : Close(t, c)
    \/ \E t \in Threads, kp \in KeyPairs : Destroy(t, kp)
    \/ \E c \in Clients : sendHeartbeat(c)
    \/ \E c \in Clients : heartbeatDone(c)
    \/ \E t \in Threads : StartHeartbeatGo(t) \/ RegisterUnlock(t)
    \/ \E t \in Threads, c \in Clients, h \in Bundles : RegisterHelpers(t, c, h)
    \/ \E t \in Threads, c \in Clients, k \in CheckKeys, a \in 1..MaxAmount :
         ConsumeDeprecated(t, c, k, a)
    \/ \E t \in Threads, c \in Clients, k \in CheckKeys, u \in 0..2 :
         CheckCapacityDeprecated(t, c, k, u)
    \/ \E t \in Threads, c \in Clients, k \in CheckKeys, r \in Rates :
         CheckTPSDeprecated(t, c, k, r)
    \/ \E t \in Threads, c \in Clients, k \in CheckKeys, h \in 0..(2 * MaxAmount) :
         ReportUsage(t, c, k, h)
    \/ \E t \in Threads : ReleaseDenied(t)
    \/ \E t \in Threads :
         \/ ConsumeDeprecatedCheck(t) \/ ConsumeDeprecatedReply(t)
         \/ CheckCapacityDeprecatedCheck(t) \/ CheckTPSDeprecatedCheck(t)
    \/ \E t \in Threads :
         \/ ConsumeWithContextLocked(t) \/ ConsumeWithContextCall(t) \/ ConsumeRecord(t)
         \/ CheckCapacityWithHelperLocked(t) \/ CheckCapacityWithHelperCall(t)
         \/ getCurrentTPS(t) \/ getCurrentTPSRate(t) \/ CheckProductLimits(t)
         \/ queryFeature(t) \/ QueryReply(t) \/ CacheSet(t)
         \/ CheckFeatureReturn(t) \/ ConsumeCheck(t) \/ UsageReply(t)
         \/ ReportUsageReply(t) \/ RegisterSign(t)
         \/ CloseDestroy(t) \/ DestroyWipe(t)
         \/ CheckCapacityCheck(t) \/ CheckTPSCheck(t) \/ AcquireSlotLimit(t)
         \/ Lock(t) \/ AcquireSlotRead(t) \/ AcquireSlotWrite(t)
         \/ ReleaseRead(t) \/ ReleaseWrite(t) \/ RegisterReply(t)

Spec == Init /\ [][Next]_vars

\* ================================================================ claims
\* The authority queries of client c for check-key k that are outstanding.
Outstanding(c, k) ==
    {t \in Threads : pc[t] = "cf_wait" /\ Client(t) = c /\ loc[t].key = k}

\* C1: coalesced refresh - at no time are two authority queries for the same
\* check-key outstanding (concurrent CheckFeature calls on a cold or expired
\* cache share one query).
C1_CoalescedRefresh ==
    \A c \in Clients, k \in CheckKeys : Cardinality(Outstanding(c, k)) <= 1

\* C2: a Register call whose request the authority answered with success goes
\* on to return: the thread that got the answer is never left waiting for a
\* mutex that cannot be handed to it.
C2_RegisterReturns ==
    \A t \in Threads :
        (op[t].name = "Register" /\ pc[t] = "hb_lock") => ENABLED Lock(t)

\* The threads that are running release capability i.
Releasing(i) == {t \in Threads : op[t].name = "release" /\ op[t].arg = i}

\* C3: idempotent release - once the release capability of a slot has been
\* invoked (one or more times, all invocations finished) and no other acquire
\* or release touched the key in between, the count of the key equals the
\* count before the acquisition.
C3_IdempotentRelease ==
    \A i \in DOMAIN slots :
        (slots[i].invoked >= 1 /\ ~slots[i].dirty /\ Releasing(i) = {})
            => LedgerCount(ledger, slots[i].key) = slots[i].before

\* The slots of a ledger key whose release capability was never invoked.
Unreleased(key) == {i \in DOMAIN slots : slots[i].key = key /\ slots[i].invoked = 0}

\* C4: with maxConcurrency = M, the slots acquired and not yet released at all
\* are at most M, for every ledger key.
C4_HeldAtMostMax ==
    \A i \in DOMAIN slots :
        Cardinality(Unreleased(slots[i].key)) <= license.maxConcurrency

\* C5: on one client instance, with maxConcurrency = M, no ledger count ever
\* exceeds M; the count an acquisition read is still the count when it
\* increments it; and a denied acquisition leaves the ledger as it is.
C5_LedgerBound ==
    [][/\ \A k \in DOMAIN ledger' : ledger'[k] <= license.maxConcurrency
       /\ \A t \in Threads :
             pc[t] = "as_write" => LedgerCount(ledger, KeyOf(t)) = loc[t].cur
       /\ \A t \in Threads :
             (pc[t] = "as_read" /\ pc'[t] = "idle") => ledger' = ledger]_vars

\* C5 witness: two concurrent acquisitions on one client contend for the last
\* slot, one in its ledger section and the other waiting for the mutex.
C5_Witness ==
    \E t1, t2 \in Threads :
        /\ t1 # t2 /\ Client(t1) = Client(t2)
        /\ pc[t1] = "as_write" /\ pc[t2] = "as_lock"
        /\ loc[t1].cur + 1 = license.maxConcurrency

\* C6: no two threads are inside a ledger read/modify section at the same time.
C6_LedgerMutex == Cardinality(InLedger) <= 1

\* C7: the ledger state of a client is its own - a client is denied a slot
\* for concurrency only when slots were acquired through that same client.
C7_NoSharedLedger ==
    \A t \in Threads :
        (/\ ret[t].name \in {"AcquireSlot", "AcquireSlotDeprecated"}
         /\ ~ret[t].admitted
         /\ (ret[t].err = "concurrency exceeded" \/ ret[t].reason = "concurrency_exceeded"))
            => \E i \in DOMAIN slots : slots[i].client = ret[t].client

\* C8: cache freshness - an entry stored at t with time-to-live ttl (expiresAt
\* = t + ttl) is returned by the lookup while now < t + ttl and reported absent
\* from now = t + ttl on.
C8_CacheFreshness ==
    \A c \in Clients : \A k \in DOMAIN cache[c] :
        /\ now < cache[c][k].expiresAt
              => featureCache_get(cache[c], k, now) = cache[c][k].status
        /\ now >= cache[c][k].expiresAt
              => featureCache_get(cache[c], k, now) = None

\* C9: CheckFeature calls for one check-key that overlap on a cold cache (each
\* of them queried the authority) get the same result, status and error.
C9_SameResult ==
    \A t1, t2 \in Threads :
        (/\ op[t1].name = "CheckFeature" /\ op[t2].name = "CheckFeature"
         /\ pc[t1] = "cf_done" /\ pc[t2] = "cf_done"
         /\ Client(t1) = Client(t2) /\ loc[t1].key = loc[t2].key
         /\ loc[t1].queries = 1 /\ loc[t2].queries = 1)
            => (loc[t1].status = loc[t2].status /\ loc[t1].err = loc[t2].err)

\* The errors of a transport/authority or configuration failure.
FailureErrors ==
    {"request failed", "failed to create request", "failed to sign request",
     "usage report failed",
     "QuotaConsumer helper not registered", "CapacityCounter helper not registered"}

\* C10: a non-nil error is returned by Consume, CheckTPS, CheckCapacity and
\* AcquireSlot only for transport/authority or configuration failures; a denial
\* by the snapshot or a limit comes with a nil error.
C10_DenialIsNotError ==
    \A t \in Threads :
        (ret[t].name \in {"Consume", "CheckTPS", "CheckCapacity", "AcquireSlot"}
         /\ ~ret[t].admitted /\ ret[t].err # "")
            => ret[t].err \in FailureErrors

\* The four product-level admission primitives.
Primitives == {"Consume", "CheckTPS", "CheckCapacity", "AcquireSlot"}

\* C11: when a primitive (Consume, CheckTPS, CheckCapacity, AcquireSlot) found
\* no fresh snapshot in the cache and its authority query failed, the failure
\* stores nothing in the cache, and the call's next step is its return, with
\* admitted = false and a non-nil error, no usage report sent, the cache and
\* the ledger (and the release capabilities handed out) as they were.
C11_QueryFailure ==
    [][\A t \in Threads :
          /\ (op[t].name \in Primitives /\ pc[t] = "cf_wait" /\ pc'[t] = "cf_done")
                => (cache' = cache /\ ledger' = ledger /\ reported' = reported)
          /\ (/\ op[t].name \in Primitives /\ pc[t] = "cf_done"
              /\ loc[t].queries = 1 /\ loc[t].err # "" /\ pc'[t] # pc[t])
                => /\ pc'[t] = "idle"
                   /\ ~ret'[t].admitted /\ ret'[t].err = loc[t].err
                   /\ cache' = cache /\ ledger' = ledger
                   /\ reported' = reported /\ slots' = slots]_vars

\* C11 witness: a Consume on a cold cache returned the error of its failed
\* query; nothing was reported, cached or acquired.
C11_Witness ==
    \E t \in Threads :
        /\ ret[t].name = "Consume" /\ ~ret[t].admitted /\ ret[t].err = "request failed"
        /\ reported = << >> /\ DOMAIN cache[ret[t].client] = {} /\ DOMAIN ledger = {}

\* C12: a usage report is sent only by a Consume call that holds a snapshot
\* with enabled = true (and carries that call's amount); a Consume call whose
\* snapshot is not enabled returns admitted = false without sending one.
C12_ReportOnlyWhenAdmitted ==
    [][/\ reported' # reported
            => \E t \in Threads :
                  /\ pc[t] = "cf_done" /\ op[t].name = "Consume"
                  /\ loc[t].err = "" /\ loc[t].status.enabled
                  /\ reported' = Append(reported, op[t].arg)
       /\ \A t \in Threads :
            (/\ pc[t] = "cf_done" /\ op[t].name = "Consume" /\ loc[t].err = ""
             /\ ~loc[t].status.enabled /\ pc'[t] # pc[t])
                => (pc'[t] = "idle" /\ ~ret'[t].admitted /\ reported' = reported)]_vars

\* C12 witness: a Consume was denied by its snapshot and no report was sent.
C12_Witness ==
    \E t \in Threads :
        /\ ret[t].name = "Consume" /\ ~ret[t].admitted /\ ret[t].err = "quota exceeded"
        /\ ~license.enabled /\ reported = << >>

\* C13: a Consume(amount) whose snapshot is enabled with quota.remaining = R
\* and whose usage report succeeded returns (true, max(0, R - amount), nil),
\* having sent exactly one usage report, which carries amount.
C13_ConsumeArithmetic ==
    [][\A t \in Threads :
          (/\ op[t].name = "Consume" /\ pc[t] = "ru_wait" /\ pc'[t] = "idle"
           /\ ret'[t].err = "" /\ loc[t].status.quota >= 0)
              => LET R == loc[t].status.quota
                     amount == op[t].arg
                 IN /\ ret'[t].admitted
                    /\ ret'[t].value = (IF R - amount < 0 THEN 0 ELSE R - amount)
                    /\ loc[t].reports = 1
                    /\ reported' = reported
                    /\ reported[Len(reported)] = amount]_vars

\* C13 witness: Consume(2) against remaining 1 returned (true, 0, nil) after
\* one report of 2.
C13_Witness ==
    \E t \in Threads :
        /\ ret[t].name = "Consume" /\ ret[t].admitted /\ ret[t].value = 0
        /\ license.quota = 1 /\ reported = <<2>>

\* C14: Consume's decision follows the snapshot's enabled flag alone: with
\* enabled = true it goes on to report usage (for every amount and remaining)
\* and, the report acknowledged, admits; with enabled = false it denies.
C14_SnapshotDecides ==
    [][\A t \in Threads :
          /\ (/\ pc[t] = "cf_done" /\ op[t].name = "Consume" /\ loc[t].err = ""
              /\ pc'[t] # pc[t])
                => IF loc[t].status.enabled
                   THEN pc'[t] = "ru_wait" \/ ret'[t].err \in FailureErrors
                   ELSE pc'[t] = "idle" /\ ~ret'[t].admitted
          /\ (/\ pc[t] = "ru_wait" /\ op[t].name = "Consume" /\ pc'[t] = "idle"
              /\ ret'[t].err = "")
                => ret'[t].admitted]_vars

\* C14 witness: a Consume of an amount above the remaining quota is on the
\* admit path (its usage report sent).
C14_Witness ==
    \E t \in Threads :
        /\ pc[t] = "ru_wait" /\ op[t].name = "Consume"
        /\ loc[t].status.quota >= 0 /\ op[t].arg > loc[t].status.quota

\* C15: after the usage report of an admitted Consume was sent, the call's
\* next step is its return: (true, remaining, nil), or when the report failed
\* (false, 0, err) with a non-nil error; the report was sent once, is not sent
\* again, and the cache stays as it is.
C15_ReportFailure ==
    [][\A t \in Threads :
          (pc[t] = "ru_wait" /\ op[t].name = "Consume" /\ <<pc[t], loc[t]>>' # <<pc[t], loc[t]>>)
              => /\ pc'[t] = "idle"
                 /\ loc[t].reports = 1 /\ reported' = reported
                 /\ cache' = cache
                 /\ \/ ret'[t].admitted /\ ret'[t].err = ""
                    \/ ~ret'[t].admitted /\ ret'[t].value = 0 /\ ret'[t].err # ""]_vars

\* C15 witness: a Consume returned the error of its failed usage report, one
\* report sent and the enabled snapshot still cached.
C15_Witness ==
    \E t \in Threads :
        /\ ret[t].name = "Consume" /\ ~ret[t].admitted
        /\ ret[t].err = "usage report failed"
        /\ Len(reported) = 1
        /\ ProductKey \in DOMAIN cache[ret[t].client]
        /\ cache[ret[t].client][ProductKey].status.enabled

\* C16: every count stored in the ledger is at least 1 (never zero or
\* negative: an entry that would reach zero is removed), and the ledger is
\* empty when no slot is held, i.e. when every release capability handed out
\* has been invoked and no call is running.
C16_LedgerCounts ==
    /\ \A k \in DOMAIN ledger : ledger[k] >= 1
    /\ (/\ ~fatal
        /\ \A t \in Threads : pc[t] = "idle"
        /\ \A i \in DOMAIN slots : slots[i].invoked >= 1)
          => DOMAIN ledger = {}

\* Every thread but t is idle: t's call runs on its own.
Sequential(t) == \A u \in Threads \ {t} : pc[u] = "idle"

\* C17: scenario C - with maxConcurrency = 2, an AcquireSlot that runs on its
\* own while no release capability has been invoked is admitted exactly when
\* fewer than two slots were admitted before it (calls 1 and 2 admitted, call
\* 3 denied), and an AcquireSlot that runs after two admitted slots and one
\* finished invocation of the first slot's release capability is admitted.
C17_ScenarioC ==
    [][\A t \in Threads :
          (/\ op[t].name = "AcquireSlot" /\ pc[t] \in {"as_read", "as_write"}
           /\ pc'[t] = "idle" /\ Sequential(t)
           /\ loc[t].status.maxConcurrency = 2)
              => /\ (\A i \in DOMAIN slots : slots[i].invoked = 0)
                       => (ret'[t].admitted <=> Len(slots) < 2)
                 /\ (/\ Len(slots) = 2
                     /\ slots[1].invoked = 1 /\ slots[2].invoked = 0)
                       => ret'[t].admitted]_vars

\* C17 witness: two slots admitted, a third AcquireSlot denied for
\* concurrency, the first slot released once, and the fourth AcquireSlot (the
\* fifth call) has read count 1 and is about to be admitted.
C17_Witness ==
    \E t, u \in Threads :
        /\ t # u /\ calls = 5 /\ license.maxConcurrency = 2
        /\ op[t].name = "AcquireSlot" /\ pc[t] = "as_write" /\ loc[t].cur = 1
        /\ Len(slots) = 2 /\ slots[1].invoked = 1 /\ slots[2].invoked = 0
        /\ pc[u] = "idle" /\ ret[u].name = "AcquireSlot"
        /\ ~ret[u].admitted /\ ret[u].err = "concurrency exceeded"

\* A fresh entry for check-key k is cached by client c: now < expiresAt.
Fresh(c, k) == k \in DOMAIN cache[c] /\ now < cache[c][k].expiresAt

\* C18: fetch-or-refresh - a CheckFeature call for key k returns the cached
\* snapshot without an authority query when a fresh entry for k is cached
\* (so a second call within the TTL gets the same snapshot), and otherwise
\* issues exactly one authority query, whose successful result is stored
\* under k with the configured TTL and returned.
C18_FetchOrRefresh ==
    [][/\ \A t \in Threads, c \in Clients, k \in CheckKeys :
             CheckFeature(t, c, k)
                => IF Fresh(c, k)
                   THEN /\ pc'[t] = "cf_done" /\ loc'[t].queries = 0
                        /\ loc'[t].status = cache[c][k].status
                   ELSE pc'[t] = "cf_query" /\ loc'[t].queries = 0
       /\ \A t \in Threads :
             (op[t].name = "CheckFeature" /\ queryFeature(t))
                => (pc'[t] = "cf_wait" /\ loc'[t].queries = 1)
       /\ \A t \in Threads :
             (op[t].name = "CheckFeature" /\ CacheSet(t))
                => /\ loc[t].queries = 1
                   /\ cache'[Client(t)][loc[t].key] =
                         [status |-> loc[t].status, expiresAt |-> now + ttl[Client(t)]]
       /\ \A t \in Threads :
             (CheckFeatureReturn(t) /\ loc[t].queries = 1 /\ loc[t].err = "")
                => /\ ret'[t].status = loc[t].status /\ ret'[t].queries = 1
                   /\ loc[t].key \in DOMAIN cache[Client(t)]
                         => cache[Client(t)][loc[t].key].expiresAt <= now + ttl[Client(t)]]_vars

\* C19: ClearCache leaves the cache lookup reporting absent for every
\* check-key, whether the entries removed had expired or not, and a
\* CheckFeature for a key that has no entry (cleared and not refreshed since)
\* issues an authority query.
C19_ClearCache ==
    [][/\ \A t \in Threads, c \in Clients :
             ClearCache(t, c)
                => \A k \in CheckKeys : featureCache_get(cache'[c], k, now') = None
       /\ \A t \in Threads, c \in Clients, k \in CheckKeys :
             (CheckFeature(t, c, k) /\ k \notin DOMAIN cache[c])
                => pc'[t] = "cf_query"
       /\ \A t \in Threads :
             (op[t].name = "CheckFeature" /\ queryFeature(t))
                => (pc'[t] = "cf_wait" /\ loc'[t].queries = loc[t].queries + 1)]_vars

\* C19 witness: a CheckFeature stored and returned a snapshot that has not
\* expired (TTL 1, clock still at 0), and the cache has been cleared since.
C19_Witness ==
    \E t \in Threads :
        /\ ret[t].name = "CheckFeature" /\ ret[t].err = "" /\ ret[t].queries = 1
        /\ now = 0 /\ ttl[ret[t].client] = 1
        /\ DOMAIN cache[ret[t].client] = {}
        /\ \A u \in Threads : pc[u] = "idle"

\* C20: the lifetime of a stored snapshot is the cache_ttl of the query
\* response when the response carries one, and the configured TTL otherwise.
C20_ServerTTL ==
    [][\A t \in Threads :
          CacheSet(t)
             => cache'[Client(t)][loc[t].key].expiresAt =
                   now + (IF loc[t].cacheTTL > 0 THEN loc[t].cacheTTL
                          ELSE ttl[Client(t)])]_vars

\* C21: capacity fail-closed - a capacity check whose snapshot has no
\* maxCapacity (zero or unset) returns admitted = false, whatever the current
\* usage x, x = 0 included.
C21_CapacityFailClosed ==
    [][\A t \in Threads :
          (/\ pc[t] = "cf_done" /\ op[t].name \in CheckCapacityCalls
           /\ loc[t].err = "" /\ loc[t].status.maxCapacity <= 0 /\ pc'[t] # pc[t])
              => (pc'[t] = "idle" /\ ~ret'[t].admitted)]_vars

\* C21 witness: a CheckCapacity against a license without a capacity limit
\* was denied.
C21_Witness ==
    \E t \in Threads :
        /\ ret[t].name = "CheckCapacity" /\ ~ret[t].admitted
        /\ ret[t].err = "no capacity limit configured" /\ license.maxCapacity = 0

\* C22: with maxCapacity = C > 0 a capacity check of current usage x admits
\* exactly when x < C (x = C is denied), and a denial returns C as the maximum.
C22_CapacityStrict ==
    [][\A t \in Threads :
          (/\ pc[t] = "cf_done" /\ op[t].name \in CheckCapacityCalls
           /\ loc[t].err = "" /\ loc[t].status.maxCapacity > 0 /\ pc'[t] # pc[t])
              => /\ pc'[t] = "idle"
                 /\ ret'[t].admitted <=> op[t].arg < loc[t].status.maxCapacity
                 /\ ~ret'[t].admitted => ret'[t].value = loc[t].status.maxCapacity]_vars

\* C22 witness: CheckCapacity was denied at the limit and returned the limit
\* (the usages checked are 0..2 against C = 2, so the denied one is x = C).
C22_Witness ==
    \E t \in Threads :
        /\ ret[t].name = "CheckCapacity" /\ ~ret[t].admitted
        /\ ret[t].err = "capacity exceeded" /\ ret[t].value = 2

\* Helper bundle h (None when RegisterHelpers never succeeded) has no
\* capacity counter.
NoCapacityCounter(h) == h = None \/ h.CapacityCounter = "nil"

\* C23: CheckCapacityWithHelper on a client without a registered capacity
\* counter reads the client's helpers and returns a configuration error as
\* its next step: admitted = false, no authority query issued, the usage it
\* was not given never replaced by a default.
C23_NoCounterIsError ==
    [][\A t \in Threads :
          /\ (pc[t] = "cch_rlock" /\ pc'[t] # pc[t])
                => (pc'[t] = "cch_call" /\ loc'[t].helpers = helpers[Client(t)])
          /\ (/\ pc[t] = "cch_call" /\ pc'[t] # pc[t]
              /\ NoCapacityCounter(loc[t].helpers))
                => /\ pc'[t] = "idle"
                   /\ ~ret'[t].admitted
                   /\ ret'[t].err = "CapacityCounter helper not registered"
                   /\ loc[t].queries = 0 /\ cache' = cache]_vars

\* C23 witness: CheckCapacityWithHelper returned the configuration error on a
\* client that never registered helpers.
C23_Witness ==
    \E t \in Threads :
        /\ ret[t].name = "CheckCapacityWithHelper" /\ ~ret[t].admitted
        /\ ret[t].err = "CapacityCounter helper not registered"
        /\ helpers[ret[t].client] = None

\* C24: RegisterHelpers with a nil bundle or a bundle without a capacity
\* counter returns an error and leaves the registered helpers as they were.
C24_RegisterFailsFast ==
    [][\A t \in Threads, c \in Clients, h \in Bundles :
          (RegisterHelpers(t, c, h) /\ Validate(h) # "")
              => /\ pc'[t] = "idle" /\ ret'[t].err # ""
                 /\ helpers' = helpers]_vars

\* C24 witness: a RegisterHelpers call failed validation on a client that had
\* a bundle registered before, and that bundle is still registered.
C24_Witness ==
    \E t \in Threads :
        /\ ret[t].name = "RegisterHelpers" /\ ret[t].err = "helper validation failed"
        /\ helpers[ret[t].client] # None

\* C25: when the application supplied no consumption-amount provider (no
\* RegisterHelpers call, or a bundle with that slot empty), ConsumeWithContext
\* goes on exactly as Consume(1): it records the request and checks the product
\* limits with amount 1.
C25_DefaultAmount ==
    [][\A t \in Threads :
          /\ (pc[t] = "cwc_rlock" /\ pc'[t] # pc[t])
                => (pc'[t] = "cwc_call" /\ loc'[t].helpers = helpers[Client(t)])
          /\ (/\ pc[t] = "cwc_call" /\ pc'[t] # pc[t]
              /\ (loc[t].helpers = None \/ loc[t].helpers.QuotaConsumer # "app"))
                => (pc'[t] = "c_record" /\ op'[t].arg = 1)
          /\ (pc[t] = "c_record" /\ pc'[t] # pc[t])
                => /\ pc'[t] = "cf_get" /\ op'[t] = op[t]
                   /\ events'[Client(t)] = Append(events[Client(t)], now)]_vars

\* C26: CheckTPS admits when the snapshot has no max rate (zero or unset);
\* otherwise it admits exactly when currentRate <= maxRate, and a denial returns
\* the max rate.
C26_RateCheck ==
    [][\A t \in Threads :
          (/\ pc[t] = "cf_done" /\ op[t].name = "CheckTPS"
           /\ loc[t].err = "" /\ pc'[t] # pc[t])
              => LET maxRate == loc[t].status.maxTPS IN
                 /\ pc'[t] = "idle"
                 /\ maxRate <= 0 => ret'[t].admitted
                 /\ maxRate > 0 => (ret'[t].admitted <=> loc[t].cur <= maxRate)
                 /\ ~ret'[t].admitted => ret'[t].value = maxRate]_vars

\* C26 witness: with max rate 1 and one request in the window (internal
\* estimator, rate 1 = max), CheckTPS admitted.
C26_Witness ==
    \E t \in Threads :
        /\ ret[t].name = "CheckTPS" /\ ret[t].admitted /\ ret[t].value = 1
        /\ helpers[ret[t].client] = None
        /\ events[ret[t].client] = <<now>>

\* The recorded requests of client c that are less than a window old.
InWindow(c) == {i \in 1..Len(events[c]) : now - events[c][i] < Window}

\* C27: the current rate CheckTPS uses is the value of the application's rate
\* provider when one was registered, and otherwise (no RegisterHelpers call,
\* or a bundle with an empty rate-provider slot) the number of requests
\* recorded within the last window.
C27_RateSource ==
    [][\A t \in Threads :
          /\ (pc[t] = "tps_rlock" /\ pc'[t] # pc[t])
                => (pc'[t] = "tps_rate" /\ loc'[t].helpers = helpers[Client(t)])
          /\ (pc[t] = "tps_rate" /\ pc'[t] # pc[t])
                => LET h == loc[t].helpers IN
                   loc'[t].cur = IF h # None /\ h.TPSProvider = "app"
                                 THEN op[t].arg
                                 ELSE Cardinality(InWindow(Client(t)))]_vars

\* C27 witness: after a RegisterHelpers with an empty rate-provider slot,
\* CheckTPS took the internal rate (1) and not the value an application
\* provider would have returned (2).
C27_Witness ==
    \E t \in Threads :
        /\ pc[t] = "cf_get" /\ op[t].name = "CheckTPS" /\ op[t].arg = 2
        /\ helpers[Client(t)] # None /\ helpers[Client(t)].TPSProvider = "internal"
        /\ loc[t].cur = 1

\* A read of the internal rate by thread t: the step of getCurrentTPS after
\* its read lock, no application rate provider registered.
InternalRateRead(t) ==
    /\ pc[t] = "tps_rate" /\ pc'[t] # pc[t]
    /\ ~(loc[t].helpers # None /\ loc[t].helpers.TPSProvider = "app")

C29_WindowInvariant ==
    [][\A t \in Threads :
          LET c == Client(t) IN
          /\ events'[c] # events[c]
                => \A i \in DOMAIN requests'[c] :
                      requests'[c][i] >= now - Window /\ requests'[c][i] <= now
          /\ (/\ pc[t] = "tps_rate" /\ pc'[t] # pc[t]
              /\ ~(loc[t].helpers # None /\ loc[t].helpers.TPSProvider = "app"))
                => \A i \in DOMAIN requests'[c] :
                      requests'[c][i] >= now - Window /\ requests'[c][i] <= now]_vars

\* C30: every Consume call records exactly one event in the rate tracker, at
\* its start (the newest retained timestamp is the time of the call, and only
\* older ones were dropped), and no later step of the call, whatever its
\* outcome, records or drops anything.
C30_ConsumeRecords ==
    [][\A t \in Threads :
          /\ \A c \in Clients, a \in 1..MaxAmount :
               Consume(t, c, a)
                  => /\ requests'[c] # << >>
                     /\ requests'[c][Len(requests'[c])] = now
                     /\ \E k \in 0..Len(requests[c]) :
                          requests'[c] = SubSeq(Append(requests[c], now), k + 1,
                                                Len(requests[c]) + 1)
          /\ (op[t].name = "Consume" /\ pc'[t] # pc[t])
                => requests' = requests]_vars

\* C30 witness: a Consume denied by the snapshot (license not enabled) has
\* left its event in the tracker.
C30_Witness ==
    \E t \in Threads :
        /\ ret[t].name = "Consume" /\ ~ret[t].admitted
        /\ ret[t].err = "quota exceeded" /\ ~license.enabled
        /\ requests[ret[t].client] = <<now>> /\ calls = 1

\* C31: every call of one of the four admission primitives (Consume, CheckTPS,
\* CheckCapacity, AcquireSlot) records one event in the rate tracker: in a run
\* of primitive calls on one client, whenever no call is running the tracker
\* has been given one event per call made.
C31_EveryPrimitiveRecords ==
    (\A t \in Threads : pc[t] = "idle") => Len(events["c1"]) = calls

\* The positions at which a thread waits for the authority's answer to a
\* request (feature check, usage report, registration).
NetworkWaits == {"cf_wait", "ru_wait", "reg_wait"}

\* C32: no thread waits for the authority while it holds a lock that guards
\* the cache, the rate window or the ledger: a thread in a network wait holds
\* no client mutex (c.mu guards the ledger sections).
C32_NoLockAcrossNetwork ==
    \A t \in Threads : pc[t] \in NetworkWaits => \A c \in Clients : mu[c] # t

\* The deprecated feature-scoped primitives.
DeprecatedPrimitives ==
    {"ConsumeDeprecated", "CheckCapacityDeprecated", "CheckTPSDeprecated",
     "AcquireSlotDeprecated"}

\* C33: every denial carries a populated reason: a primitive that returned
\* admitted = false reported a non-empty reason to its caller (the reason
\* result of a deprecated primitive, the error text of a product-level one),
\* also when the authority's response carried no reason.
C33_DenialHasReason ==
    \A t \in Threads :
        (ret[t].name \in Primitives \cup DeprecatedPrimitives /\ ~ret[t].admitted)
            => IF ret[t].name \in DeprecatedPrimitives
               THEN ret[t].reason # "" ELSE ret[t].err # ""

\* C40: one enforcement pipeline - for the same snapshot and the same inputs
\* a deprecated feature-scoped primitive decides as its product-level
\* counterpart does: the capacity checks admit exactly when a limit C > 0 is
\* configured and currentUsed < C; the rate checks admit when no rate limit is
\* configured and otherwise exactly when the current rate is at most the
\* limit; the consume calls go on to report usage exactly when the snapshot
\* is enabled; the slot acquisitions are denied without a concurrency limit
\* and otherwise admit exactly when the count of their key is below it.
C40_OnePipeline ==
    [][\A t \in Threads :
          /\ (pc[t] = "cf_done" /\ loc[t].err = "" /\ pc'[t] # pc[t])
                => LET s == loc[t].status IN
                   /\ op[t].name \in {"CheckCapacity", "CheckCapacityDeprecated"}
                        => (ret'[t].admitted
                               <=> (s.maxCapacity > 0 /\ op[t].arg < s.maxCapacity))
                   /\ op[t].name \in {"CheckTPS", "CheckTPSDeprecated"}
                        => LET rate == IF op[t].name = "CheckTPS" THEN loc[t].cur
                                       ELSE op[t].arg
                           IN ret'[t].admitted <=> (s.maxTPS <= 0 \/ rate <= s.maxTPS)
                   /\ op[t].name \in {"Consume", "ConsumeDeprecated"}
                        => (pc'[t] \in {"ru_wait", "dru_wait"} <=> s.enabled)
                   /\ op[t].name \in {"AcquireSlot", "AcquireSlotDeprecated"}
                        => (pc'[t] = "as_lock" <=> s.maxConcurrency > 0)
          /\ (pc[t] = "as_read" /\ pc'[t] # pc[t])
                => (pc'[t] = "as_write"
                      <=> LedgerCount(ledger, KeyOf(t)) < loc[t].status.maxConcurrency)]_vars

\* C34: when the authority is unavailable the client falls back to cached
\* data: a CheckFeature whose authority query fails while the cache holds an
\* entry for its key whose TTL has elapsed gets that entry's snapshot and no
\* error.
C34_FallbackToCache ==
    [][\A t \in Threads :
          (/\ op[t].name = "CheckFeature" /\ pc[t] = "cf_wait" /\ pc'[t] = "cf_done"
           /\ loc[t].key \in DOMAIN cache[Client(t)]
           /\ cache[Client(t)][loc[t].key].expiresAt < now)
              => /\ loc'[t].err = ""
                 /\ loc'[t].status = cache[Client(t)][loc[t].key].status]_vars

\* C36: Close clears the client's in-memory state: when Close returns, the
\* client's cache is empty, its rate window is empty and the ledger holds no
\* entry under the client's identity.
C36_CloseClears ==
    [][\A t \in Threads :
          (pc[t] = "close_destroy" /\ pc'[t] = "idle")
              => LET c == Client(t) IN
                 /\ DOMAIN cache'[c] = {}
                 /\ requests'[c] = << >>
                 /\ \A k \in DOMAIN ledger' : k[1] # instanceID[c]]_vars

\* C38: a denied AcquireSlot (authority error, no concurrency limit
\* configured, or count >= maxConcurrency) leaves the ledger and the release
\* capabilities handed out as they were, and every invocation of the release
\* function it returned leaves the ledger unchanged.
C38_DeniedIsNoOp ==
    [][\A t \in Threads :
          /\ (/\ op[t].name \in {"AcquireSlot", "AcquireSlotDeprecated"}
              /\ pc[t] # "idle" /\ pc'[t] = "idle" /\ ~ret'[t].admitted)
                => (ledger' = ledger /\ slots' = slots)
          /\ ReleaseDenied(t) => ledger' = ledger]_vars

\* C38 witness: with a limit of 1 one slot is held, a second AcquireSlot was
\* denied for concurrency, its release function has been invoked twice, and
\* the count of the key is still 1.
C38_Witness ==
    \E t \in Threads :
        /\ ret[t].name = "AcquireSlot" /\ ~ret[t].admitted
        /\ ret[t].err = "concurrency exceeded" /\ ret[t].invoked = 2
        /\ Len(slots) = 1 /\ slots[1].invoked = 0
        /\ LedgerCount(ledger, slots[1].key) = 1

\* C39: a cached snapshot is never mutated in place: the only step of
\* Consume, CheckTPS, CheckCapacity and AcquireSlot that changes the cache is
\* the store of a freshly queried snapshot, which replaces the entry of its
\* key and leaves the others alone; so a successful Consume(a) that was
\* served from the cache returns max(0, R - a) for the remaining R of the
\* snapshot the authority sent.
C39_SnapshotImmutable ==
    [][/\ cache' # cache
            => \E t \in Threads :
                  /\ pc[t] = "cf_set" /\ pc'[t] = "cf_done"
                  /\ \A c \in Clients : \A k \in DOMAIN cache[c] :
                        (c # Client(t) \/ k # loc[t].key)
                            => (k \in DOMAIN cache'[c] /\ cache'[c][k] = cache[c][k])
       /\ \A t \in Threads :
             (/\ op[t].name = "Consume" /\ pc[t] = "ru_wait" /\ pc'[t] = "idle"
              /\ ret'[t].admitted /\ loc[t].queries = 0)
                => /\ cache[Client(t)][ProductKey].status = license
                   /\ ret'[t].value = Max(0, license.quota - op[t].arg)]_vars

\* C39 witness: two Consume(1) calls in a row were admitted against a
\* snapshot with remaining 3, the second one served from the cache, and it
\* returned 2 as the first did; the cached snapshot still has remaining 3.
C39_Witness ==
    \E t \in Threads :
        /\ ret[t].name = "Consume" /\ ret[t].admitted /\ ret[t].value = 2
        /\ calls = 2 /\ reported = <<1, 1>>
        /\ cache[ret[t].client][ProductKey].status.quota = 3

\* The features of manifest m at two different places that have the same ID.
DuplicateIDs(m) ==
    \E i, j \in 1..Len(m.features) : i < j /\ m.features[i].id = m.features[j].id

====
